---- MODULE Spec2Model ----
(***************************************************************************)
(* The rules engine (GameStateManager) and the turn orchestrator           *)
(* (GameOrchestrator) of the BS card game, as state machines.              *)
(*                                                                         *)
(*   Spec      any sequence of play_cards / call_bs / advance_turn calls   *)
(*             on a freshly set-up GameStateManager.                       *)
(*   SpecOrch  GameOrchestrator.run_game with agents that may answer any   *)
(*             request with any action.                                    *)
(*   SpecWait  run_game with every get_action call split into the call    *)
(*             and its return.                                             *)
(*   SpecWeb   the game thread of web_server.py statement by statement,    *)
(*             with a reader of the state running beside it.               *)
(*   SpecSetup the GameStateManager constructor for 1..52 players.         *)
(*   SpecDeck  a Deck on its own: shuffle and deal_card.                   *)
(*   SpecDeal  a Deck on its own: shuffle and deal_cards.                  *)
(*   SpecAgent AIPlayer.get_action followed by execute_action, for any     *)
(*             player and any reply of the model.                          *)
(*   SpecStart the /start_game handler of web_server.py and the game       *)
(*             threads it starts.                                          *)
(*   SpecRun   run_game up to its limit of max_turns turns, every          *)
(*             get_action call returning.                                  *)
(***************************************************************************)
EXTENDS Integers, Sequences, FiniteSets, TLC

(***************************************************************************)
(* Bounds of the model.                                                    *)
(***************************************************************************)
\* number of players handed to the GameStateManager constructor
NumPlayers == 13
\* random.shuffle is drawn from the permutations Shuffle(cards, 0..MaxShuffle)
MaxShuffle == 2
\* card arguments are built from the first MaxIdx positions of a hand
MaxIdx == 1
\* Spec makes at most MaxCalls calls on the GameStateManager
MaxCalls == 3
\* agents of SpecOrch answer freely during the first MaxPlayTurn turns processed
\* and play cards while turn_number <= MaxPlayTurn
MaxPlayTurn == 2
\* SpecOrch and SpecWait process at most MaxTurn turns
MaxTurn == 15
\* player arguments are the players 0..MaxOffset seats after the current one
MaxOffset == 2
\* SpecSetup and SpecDeck draw random.shuffle from Shuffle(cards, 0..MaxDealShuffle):
\* the ace of spades comes to lie at every position of the deck
MaxDealShuffle == 51
\* SpecDeal asks deal_cards for 0..MaxDeal cards
MaxDeal == 3
\* SpecStart receives MaxRequests /start_game requests
MaxRequests == 3
\* SpecRun: the agents answer freely during the last MaxRunFree turns that
\* run_game can process
MaxRunFree == 2

(***************************************************************************)
(* card_system.py                                                          *)
(***************************************************************************)
Suit == <<"hearts", "diamonds", "clubs", "spades">>
ACE == 1
KING == 13
Rank == ACE..KING
DeckSize == 52

Card(suit, rank) == [suit |-> suit, rank |-> rank]

\* Deck._create_deck: for suit in Suit: for rank in Rank: append
CreateDeck ==
    [i \in 1..(Len(Suit) * KING) |->
        Card(Suit[((i - 1) \div KING) + 1], ((i - 1) % KING) + 1)]

\* Deck.shuffle: one permutation of the cards; seed k selects it.
\* Seed 0 with 13 players deals four of a kind to every player.
Shuffle(cards, k) ==
    LET n == Len(cards)
        src(i) == LET j == (i - 1 + k) % n
                  IN  ((j % 4) * (n \div 4) + (j \div 4)) + 1
    IN  [i \in 1..n |-> cards[src(i)]]

\* Python's None where a Card is expected
NoCard == [suit |-> "none", rank |-> 0]

\* the card is returned and stays in the deck
deal_card_keeps_card(cards) ==
    IF cards # <<>> THEN [card |-> cards[Len(cards)], cards |-> cards]
    ELSE [card |-> NoCard, cards |-> cards]

\* Deck.deal_card: self.cards.pop() if self.cards else None
deal_card(cards) ==
    IF cards # <<>> THEN [card |-> cards[Len(cards)], cards |-> SubSeq(cards, 1, Len(cards) - 1)]
    ELSE [card |-> NoCard, cards |-> cards]

\* the cards dealt stay in the deck
deal_cards_keeps_deck(cards, count) ==
    LET k == IF count < Len(cards) THEN count ELSE Len(cards)
    IN  [dealt |-> [i \in 1..k |-> cards[Len(cards) - i + 1]],
         cards |-> cards]

\* Deck.deal_cards: pop count cards off the end, stop when the deck is empty
deal_cards(cards, count) ==
    LET k == IF count < Len(cards) THEN count ELSE Len(cards)
    IN  [dealt |-> [i \in 1..k |-> cards[Len(cards) - i + 1]],
         cards |-> SubSeq(cards, 1, Len(cards) - k)]

(***************************************************************************)
(* game_state_manager.py                                                   *)
(***************************************************************************)
SETUP == "setup"
PLAYING == "playing"
GAME_OVER == "game_over"
\* Python's None for the optional player id (no player has id 0)
None == 0
\* last_action before any accepted call
NoAction == <<>>
\* no play (an empty pile has no last play)
NoPlay == [cards |-> <<>>, claimed_rank |-> 0, claimed_count |-> 0,
           player_id |-> None, turn_number |-> 0]

\* player ids are distinct from seat indices: seat i holds player 101 + i
player_ids == [i \in 1..NumPlayers |-> 100 + i]
Players == {player_ids[i] : i \in 1..NumPlayers}

\* the position is always 0
IndexOf_always_first(seq, x) == 0

\* list.index: 0-based position of the first occurrence
IndexOf(seq, x) == (CHOOSE i \in 1..Len(seq) : seq[i] = x /\ \A j \in 1..(i - 1) : seq[j] # x) - 1

RECURSIVE DealHands(_, _, _, _)
\* the dealing loop of _setup_game, from seat i (0-based) on
DealHands(ids, cards, i, hands) ==
    IF i >= Len(ids) THEN [hands |-> hands, cards |-> cards]
    ELSE LET cards_per_player == DeckSize \div Len(ids)
             remaining_cards  == DeckSize % Len(ids)
             cards_to_deal    == IF i < remaining_cards THEN cards_per_player + 1
                                 ELSE cards_per_player
             d == deal_cards(cards, cards_to_deal)
         IN  DealHands(ids, d.cards, i + 1, [hands EXCEPT ![ids[i + 1]] = d.dealt])

\* any ace counts
HasAceOfSpades_any_suit(hand) ==
    \E i \in 1..Len(hand) : hand[i].rank = ACE

\* _setup_game lines 70-73: the hand holds the ace of spades
HasAceOfSpades(hand) ==
    \E i \in 1..Len(hand) : hand[i].rank = ACE /\ hand[i].suit = "spades"

\* GameStateManager.__init__ followed by _setup_game, for shuffle seed k
SetupGame(ids, k) ==
    LET dealt   == DealHands(ids, Shuffle(CreateDeck, k), 0,
                             [p \in {ids[i] : i \in 1..Len(ids)} |-> <<>>])
        holders == {i \in 1..Len(ids) : HasAceOfSpades(dealt.hands[ids[i]])}
        first   == CHOOSE i \in holders : \A j \in holders : i <= j
    IN  [state |->
           [player_hands          |-> dealt.hands,
            center_pile           |-> <<>>,
            current_player_index  |-> IF holders = {} THEN 0
                                      ELSE IndexOf(ids, ids[first]),
            player_order          |-> ids,
            current_expected_rank |-> ACE,
            turn_number           |-> 1,
            game_phase            |-> PLAYING,
            winner                |-> None,
            last_action           |-> NoAction],
         deck |-> dealt.cards]

\* the first player of player_order, whoever is on turn
get_current_player_first_seat(gs) == gs.player_order[1]

get_current_player(gs) == gs.player_order[gs.current_player_index + 1]

\* the player two seats after the current one
get_next_player_skips_one(gs) ==
    gs.player_order[((gs.current_player_index + 2) % Len(gs.player_order)) + 1]

get_next_player(gs) ==
    gs.player_order[((gs.current_player_index + 1) % Len(gs.player_order)) + 1]

RECURSIVE CountCards(_)
\* the loop of get_center_pile_count
CountCards(pile) ==
    IF pile = <<>> THEN 0 ELSE Len(Head(pile).cards) + CountCards(Tail(pile))

get_center_pile_count(gs) == CountCards(gs.center_pile)

\* nothing is dropped
ListRemove_nothing(hand, card) == hand

\* list.remove: drops the first occurrence of card
ListRemove(hand, card) ==
    LET i == IndexOf(hand, card) + 1
    IN  SubSeq(hand, 1, i - 1) \o SubSeq(hand, i + 1, Len(hand))

InList(hand, card) == \E i \in 1..Len(hand) : hand[i] = card

RECURSIVE RemoveCards(_, _)
\* play_cards lines 133-137: the removal loop; a card that is not in the hand
\* stops the loop after the earlier cards have already been removed
RemoveCards(hand, cards) ==
    IF cards = <<>> THEN [ok |-> TRUE, hand |-> hand]
    ELSE IF InList(hand, Head(cards))
         THEN RemoveCards(ListRemove(hand, Head(cards)), Tail(cards))
         ELSE [ok |-> FALSE, hand |-> hand]

\* all(card.rank == claimed_rank for card in cards)
AllMatch(cards, claimed_rank) == \A i \in 1..Len(cards) : cards[i].rank = claimed_rank

\* the turn check left out
NotCurrentPlayer_unchecked(gs, player_id) == FALSE

\* play_cards line 122: the turn check
NotCurrentPlayer(gs, player_id) == player_id # get_current_player(gs)

\* the winner recorded without ending the game
declare_winner_phase_kept(gs, player_id) == [gs EXCEPT !.winner = player_id]

\* play_cards lines 163-164: the player who emptied the hand wins
declare_winner(gs, player_id) ==
    [gs EXCEPT !.winner = player_id, !.game_phase = GAME_OVER]

\* the rank check left out
WrongClaimedRank_unchecked(gs, claimed_rank) == FALSE

\* play_cards line 125: the rank check
WrongClaimedRank(gs, claimed_rank) == claimed_rank # gs.current_expected_rank

\* GameStateManager.play_cards
play_cards(gs, player_id, cards, claimed_rank, claimed_count) ==
    IF NotCurrentPlayer(gs, player_id) THEN [state |-> gs, ret |-> FALSE]
    ELSE IF WrongClaimedRank(gs, claimed_rank) THEN [state |-> gs, ret |-> FALSE]
    ELSE IF claimed_count # Len(cards) THEN [state |-> gs, ret |-> FALSE]
    ELSE
      LET rm == RemoveCards(gs.player_hands[player_id], cards)
          g1 == [gs EXCEPT !.player_hands[player_id] = rm.hand]
      IN  IF ~rm.ok THEN [state |-> g1, ret |-> FALSE]
          ELSE
            LET played_cards == [cards         |-> cards,
                                 claimed_rank  |-> claimed_rank,
                                 claimed_count |-> claimed_count,
                                 player_id     |-> player_id,
                                 turn_number   |-> gs.turn_number]
                g2 == [g1 EXCEPT !.center_pile = Append(@, played_cards)]
            IN  IF Len(g2.player_hands[player_id]) = 0
                THEN [state |-> declare_winner(g2, player_id), ret |-> TRUE]
                ELSE [state |-> [g2 EXCEPT !.last_action =
                                             <<"played", player_id, claimed_count>>],
                      ret |-> TRUE]

RECURSIVE AllCards(_)
\* the cards of every play of the pile, oldest play first
AllCards(pile) ==
    IF pile = <<>> THEN <<>> ELSE Head(pile).cards \o AllCards(Tail(pile))

\* only the most recent play is picked up, the older plays are dropped
player_takes_last_play(gs, player_id) ==
    [gs EXCEPT !.player_hands[player_id] =
                   @ \o gs.center_pile[Len(gs.center_pile)].cards,
               !.center_pile = <<>>]

\* GameStateManager._player_takes_center_pile
player_takes_center_pile(gs, player_id) ==
    [gs EXCEPT !.player_hands[player_id] = @ \o AllCards(gs.center_pile),
               !.center_pile = <<>>]

\* the rank advanced without the wrap from King to Ace
advance_rank_no_wrap(gs) == [gs EXCEPT !.current_expected_rank = @ + 1]

\* GameStateManager._advance_rank
advance_rank(gs) ==
    LET next_rank_value == gs.current_expected_rank + 1
    IN  [gs EXCEPT !.current_expected_rank =
                      IF next_rank_value > 13 THEN 1 ELSE next_rank_value]

\* the turn number and the rank move on but the same player stays on turn
advance_turn_keeps_player(gs) ==
    advance_rank([gs EXCEPT !.turn_number = @ + 1])

\* GameStateManager._advance_turn / advance_turn
advance_turn(gs) ==
    advance_rank([gs EXCEPT !.current_player_index = (@ + 1) % Len(gs.player_order),
                            !.turn_number = @ + 1])

\* game_utils.is_bluffing
is_bluffing(cards, claimed_rank) == ~AllMatch(cards, claimed_rank)

\* a bluff only when no card matches
was_bs_no_card_matches(last_play) ==
    \A i \in 1..Len(last_play.cards) : last_play.cards[i].rank # last_play.claimed_rank

\* call_bs lines 190-193: was_bs for the play on top of the pile
was_bs(last_play) == ~AllMatch(last_play.cards, last_play.claimed_rank)

\* the rejection passes the turn on
reject_call_passes_turn(gs, msg) == [state |-> advance_turn(gs), ret |-> FALSE, msg |-> msg]

\* call_bs lines 175 and 178: return False with a message
reject_call(gs, msg) == [state |-> gs, ret |-> FALSE, msg |-> msg]

\* GameStateManager.call_bs; msg is the verdict carried by result_msg
call_bs(gs, caller_id) ==
    IF gs.center_pile = <<>>
    THEN reject_call(gs, "No cards have been played yet")
    ELSE IF caller_id = get_current_player(gs)
    THEN reject_call(gs, "Cannot call BS on yourself")
    ELSE
      LET last_play == gs.center_pile[Len(gs.center_pile)]
      IN  IF was_bs(last_play)
          THEN LET g1 == player_takes_center_pile(gs, last_play.player_id)
                   g2 == [g1 EXCEPT !.last_action =
                                       <<"correctly", caller_id, last_play.player_id>>,
                                    !.current_player_index =
                                       IndexOf(gs.player_order, caller_id),
                                    !.turn_number = @ + 1]
               IN  [state |-> advance_rank(g2), ret |-> TRUE, msg |-> "correctly"]
          ELSE LET g1 == player_takes_center_pile(gs, caller_id)
                   g2 == [g1 EXCEPT !.last_action =
                                       <<"incorrectly", caller_id, last_play.player_id>>]
               IN  [state |-> advance_turn(g2), ret |-> TRUE, msg |-> "incorrectly"]

is_game_over(gs) == gs.game_phase = GAME_OVER
get_winner(gs) == gs.winner

\* last_play is the play on top of the pile when call_bs was entered
CallRecord(op, player_id, ret, msg, last_play) ==
    [op |-> op, player_id |-> player_id, ret |-> ret, msg |-> msg, last_play |-> last_play]

NoCall == CallRecord("none", None, FALSE, "", NoPlay)

TopPlay(gs) ==
    IF gs.center_pile = <<>> THEN NoPlay ELSE gs.center_pile[Len(gs.center_pile)]

(***************************************************************************)
(* context_manager.py                                                      *)
(***************************************************************************)
\* ContextManager.add_game_action: the entry appended to global_game_history
add_game_action(history, turn_number, action_type, player_id, details) ==
    Append(history, [turn_number |-> turn_number,
                     action_type |-> action_type,
                     player_id   |-> player_id,
                     details     |-> details])

\* play_cards lines 152-159, for the play that now lies on top of the pile
RecordPlay(history, gs) ==
    LET played_cards == TopPlay(gs)
    IN  add_game_action(history, gs.turn_number, "play_cards", played_cards.player_id,
            [claimed_count |-> played_cards.claimed_count,
             claimed_rank  |-> gs.current_expected_rank,
             was_truthful  |-> AllMatch(played_cards.cards, played_cards.claimed_rank),
             actual_cards  |-> played_cards.cards])

\* call_bs lines 179-186 and 201-210 / 225-234, for an accepted call on gs
RecordCallBs(history, gs, caller_id) ==
    LET last_play     == TopPlay(gs)
        target_player == last_play.player_id
        bluff         == was_bs(last_play)
        h1 == add_game_action(history, gs.turn_number, "call_bs", caller_id,
                              [target_player |-> target_player])
    IN  add_game_action(h1, gs.turn_number, "bs_result", caller_id,
            [was_correct   |-> bluff,
             caller        |-> caller_id,
             target_player |-> target_player,
             penalty_cards |-> get_center_pile_count(gs),
             was_bluffing  |-> bluff,
             caught_player |-> IF bluff THEN target_player ELSE caller_id])

\* get_game_history_summary lines 190-230: the line written for one action
history_line(action) ==
    IF action.action_type = "play_cards"
    THEN [turn |-> action.turn_number, text |-> "played",
          player |-> action.player_id, target |-> None,
          count |-> action.details.claimed_count, rank |-> action.details.claimed_rank,
          truth_indicator |-> IF action.details.was_truthful THEN " (truthful)"
                              ELSE " (bluffing)"]
    ELSE IF action.action_type = "call_bs"
    THEN [turn |-> action.turn_number, text |-> "called BS on",
          player |-> action.player_id, target |-> action.details.target_player,
          count |-> 0, rank |-> 0, truth_indicator |-> ""]
    ELSE [turn |-> action.turn_number,
          text |-> IF action.details.was_correct THEN "BS call CORRECT"
                   ELSE "BS call WRONG",
          player |-> IF action.details.was_correct THEN action.details.target_player
                     ELSE action.details.caller,
          target |-> None,
          count |-> action.details.penalty_cards, rank |-> 0, truth_indicator |-> ""]

max_actions == 15

\* ContextManager.get_game_history_summary: the lines of the last max_actions
get_game_history_summary(history) ==
    LET first == IF Len(history) > max_actions THEN Len(history) - max_actions + 1 ELSE 1
    IN  [i \in 1..(Len(history) - first + 1) |-> history_line(history[first + i - 1])]

RECURSIVE SumClaimed(_, _)
\* patterns["cards_played"] of player_id
SumClaimed(history, player_id) ==
    IF history = <<>> THEN 0
    ELSE (IF Head(history).action_type = "play_cards" /\ Head(history).player_id = player_id
          THEN Head(history).details.claimed_count ELSE 0)
         + SumClaimed(Tail(history), player_id)

\* f"{100 * a / b:.0f}": the quotient rounded to the nearest integer, a tie
\* to the even one
Percent(a, b) ==
    LET q == (100 * a) \div b
        r == (100 * a) % b
    IN  IF 2 * r > b THEN q + 1
        ELSE IF 2 * r = b THEN q + (q % 2)
        ELSE q

\* add_game_action lines 67-101 and get_player_behavior_summary: the line of
\* player_id, computed from the entries recorded under that player
behavior_line(history, player_id) ==
    LET mine == {i \in 1..Len(history) : history[i].player_id = player_id}
        bs_calls == Cardinality({i \in mine : history[i].action_type = "call_bs"})
        bs_accuracy ==
            Cardinality({i \in mine : /\ history[i].action_type = "bs_result"
                                      /\ history[i].details.caller = player_id
                                      /\ history[i].details.was_correct})
        times_caught ==
            Cardinality({i \in mine : /\ history[i].action_type = "bs_result"
                                      /\ history[i].details.was_bluffing
                                      /\ history[i].details.caught_player = player_id})
        times_truthful ==
            Cardinality({i \in mine : /\ history[i].action_type = "play_cards"
                                      /\ history[i].details.was_truthful})
        total_plays == times_caught + times_truthful
    IN  [player_id    |-> player_id,
         cards_played |-> SumClaimed(history, player_id),
         bs_calls     |-> bs_calls,
         bs_success   |-> IF bs_calls > 0 THEN Percent(bs_accuracy, bs_calls) ELSE 0,
         shows_truthful_rate |-> total_plays > 0,
         truthful_rate |-> IF total_plays > 0 THEN Percent(times_truthful, total_plays)
                           ELSE 0]

\* ContextManager.get_player_behavior_summary: one line per player that has a
\* pattern entry, which is every player with an action in the history
get_player_behavior_summary(history) ==
    [p \in {history[i].player_id : i \in 1..Len(history)} |-> behavior_line(history, p)]

\* GameStateManager.get_game_context_for_player
get_game_context_for_player(gs, player_id) ==
    [hand           |-> gs.player_hands[player_id],
     hand_count     |-> Len(gs.player_hands[player_id]),
     other_players_hand_counts |->
         [q \in Players \ {player_id} |-> Len(gs.player_hands[q])],
     current_player |-> get_current_player(gs),
     is_my_turn     |-> get_current_player(gs) = player_id,
     expected_rank  |-> gs.current_expected_rank,
     center_pile_count |-> get_center_pile_count(gs),
     turn_number    |-> gs.turn_number,
     last_action    |-> gs.last_action,
     game_phase     |-> gs.game_phase,
     winner         |-> gs.winner]

\* ContextManager.generate_system_prompt: the values written into the prompt
generate_system_prompt(gs, history, player_id) ==
    LET context == get_game_context_for_player(gs, player_id)
    IN  [player_id      |-> player_id,
         turn_number    |-> context.turn_number,
         current_player |-> context.current_player,
         expected_rank  |-> context.expected_rank,
         center_pile_count |-> context.center_pile_count,
         hand_count     |-> context.hand_count,
         hand           |-> context.hand,
         other_players  |-> context.other_players_hand_counts,
         game_history   |-> get_game_history_summary(history),
         behavior       |-> get_player_behavior_summary(history),
         last_action    |-> context.last_action,
         is_my_turn     |-> context.is_my_turn,
         next_player    |-> get_next_player(gs)]

\* ContextManager.generate_conversation_context: the game status update
generate_conversation_context(gs, player_id) ==
    LET context == get_game_context_for_player(gs, player_id)
    IN  [turn_number   |-> context.turn_number,
         expected_rank |-> context.expected_rank,
         center_pile_count |-> context.center_pile_count,
         hand_count    |-> context.hand_count,
         last_action   |-> context.last_action]

\* AIPlayer.get_action lines 53-77: the messages sent to the model
messages(gs, history, player_id) ==
    [system |-> generate_system_prompt(gs, history, player_id),
     user   |-> generate_conversation_context(gs, player_id)]

\* the check for repeated indices left out
validate_play_cards_action_allows_repeats(card_indices, claimed_count, hand_size) ==
    IF card_indices = <<>> THEN FALSE
    ELSE IF Len(card_indices) # claimed_count THEN FALSE
    ELSE IF \E n \in 1..Len(card_indices) :
               card_indices[n] < 0 \/ card_indices[n] >= hand_size THEN FALSE
    ELSE IF claimed_count < 1 \/ claimed_count > 4 THEN FALSE
    ELSE TRUE

(***************************************************************************)
(* player_action_tools.py and ai_player.py                                 *)
(***************************************************************************)
\* validate_play_cards_action
validate_play_cards_action(card_indices, claimed_count, hand_size) ==
    IF card_indices = <<>> THEN FALSE
    ELSE IF Len(card_indices) # claimed_count THEN FALSE
    ELSE IF \E n \in 1..Len(card_indices) :
               card_indices[n] < 0 \/ card_indices[n] >= hand_size THEN FALSE
    ELSE IF Cardinality({card_indices[n] : n \in 1..Len(card_indices)})
               # Len(card_indices) THEN FALSE
    ELSE IF claimed_count < 1 \/ claimed_count > 4 THEN FALSE
    ELSE TRUE

\* the check that the caller is the next player left out
validate_call_bs_action_any_caller(current_player, caller_id, center_pile_count, next_player) ==
    IF center_pile_count = 0 THEN FALSE
    ELSE IF current_player = caller_id THEN FALSE
    ELSE TRUE

\* validate_call_bs_action
validate_call_bs_action(current_player, caller_id, center_pile_count, next_player) ==
    IF center_pile_count = 0 THEN FALSE
    ELSE IF current_player = caller_id THEN FALSE
    ELSE IF caller_id # next_player THEN FALSE
    ELSE TRUE

\* AIPlayer._validate_action: validation["is_valid"]
validate_action(gs, player_id, action, parameters) ==
    LET is_my_turn == get_current_player(gs) = player_id
    IN  IF action = "play_cards"
        THEN IF ~is_my_turn THEN FALSE
             ELSE validate_play_cards_action(parameters.card_indices,
                                             parameters.claimed_count,
                                             Len(gs.player_hands[player_id]))
        ELSE IF action = "call_bs"
        THEN IF is_my_turn THEN FALSE
             ELSE validate_call_bs_action(get_current_player(gs), player_id,
                                          get_center_pile_count(gs),
                                          get_next_player(gs))
        ELSE FALSE

\* a failed request is taken for a challenge
get_action_error_challenges(gs, player_id, reply) ==
    LET action == IF reply.action = "error" THEN "call_bs" ELSE reply.action
    IN  [action     |-> action,
         parameters |-> reply.parameters,
         validation |-> IF action \in {"play_cards", "call_bs"}
                        THEN validate_action(gs, player_id, action, reply.parameters)
                        ELSE FALSE]

\* what AIPlayer.get_action returns for a model reply: _process_ai_response
\* validates tool calls only; a text or error reply carries no validation
get_action(gs, player_id, reply) ==
    [action     |-> reply.action,
     parameters |-> reply.parameters,
     validation |-> IF reply.action \in {"play_cards", "call_bs"}
                    THEN validate_action(gs, player_id, reply.action, reply.parameters)
                    ELSE FALSE]

\* AIPlayer._execute_play_cards
execute_play_cards(gs, player_id, parameters) ==
    LET hand          == gs.player_hands[player_id]
        cards_to_play == [n \in 1..Len(parameters.card_indices) |->
                             hand[parameters.card_indices[n] + 1]]
        r == play_cards(gs, player_id, cards_to_play, gs.current_expected_rank,
                        parameters.claimed_count)
    IN  [state |-> r.state, ret |-> r.ret, msg |-> "",
         call |-> CallRecord("play_cards", player_id, r.ret, "", NoPlay)]

\* AIPlayer._execute_call_bs
execute_call_bs(gs, player_id) ==
    LET r == call_bs(gs, player_id)
    IN  [state |-> r.state, ret |-> r.ret, msg |-> r.msg,
         call |-> CallRecord("call_bs", player_id, r.ret, r.msg, TopPlay(gs))]

\* an action that never reaches the GameStateManager
Refused(gs) == [state |-> gs, ret |-> FALSE, msg |-> "", call |-> NoCall]

\* AIPlayer.execute_action; call is the GameStateManager call it made, if any
execute_action(gs, player_id, action_result) ==
    IF action_result.action = "error" THEN Refused(gs)
    ELSE IF ~action_result.validation THEN Refused(gs)
    ELSE IF get_current_player(gs) = player_id
         THEN IF action_result.action # "play_cards" THEN Refused(gs)
              ELSE execute_play_cards(gs, player_id, action_result.parameters)
         ELSE IF action_result.action = "call_bs"
              THEN execute_call_bs(gs, player_id)
              ELSE Refused(gs)

(***************************************************************************)
(* game_orchestrator.py                                                    *)
(***************************************************************************)
max_turns == 1000
max_attempts == 3

\* _notify_action: what the action_callback receives (the timestamp left out)
Notification(type, data, gs) ==
    [type |-> type, data |-> data, turn_number |-> gs.turn_number]

\* no notification has been sent
NoNotification == [type |-> "none", data |-> <<>>, turn_number |-> 0]

\* _process_turn lines 101-105
turn_start_data(gs, player_id, turn_number) ==
    [player_id     |-> player_id,
     turn_number   |-> turn_number,
     expected_rank |-> gs.current_expected_rank]

\* _process_turn lines 139-172, gs being the state after the accepted play;
\* action_message is kept as the values formatted into it, reasoning is the
\* agent's own text and is left out
card_play_data(gs, player_id, action_result) ==
    LET claimed_count == action_result.parameters.claimed_count
        expected_rank == gs.current_expected_rank
        last_play     == TopPlay(gs)
        actual_cards  == last_play.cards
        is_truthful   == AllMatch(actual_cards, expected_rank)
    IN  [player_id     |-> player_id,
         claimed_count |-> claimed_count,
         claimed_rank  |-> expected_rank,
         is_truthful   |-> is_truthful,
         actual_cards  |-> actual_cards,
         action_message |->
             [player_id |-> player_id,
              count     |-> claimed_count,
              verdict   |-> IF is_truthful THEN "truthfully" ELSE "bluffed",
              ranks     |-> IF is_truthful THEN <<>>
                            ELSE [i \in 1..Len(actual_cards) |-> actual_cards[i].rank],
              rank      |-> expected_rank]]

\* _handle_potential_bs_calls lines 292-300 and _handle_bs_call, gs being the
\* state before execute_action
bs_call_data(gs, caller_id) ==
    LET last_play == TopPlay(gs)
        bluff     == ~AllMatch(last_play.cards, last_play.claimed_rank)
    IN  [caller   |-> caller_id,
         target   |-> last_play.player_id,
         was_bs   |-> bluff,
         cards_revealed    |-> last_play.cards,
         center_pile_cards |-> AllCards(gs.center_pile),
         action_message    |->
             [caller  |-> caller_id,
              verdict |-> IF bluff THEN "correctly" ELSE "incorrectly",
              target  |-> last_play.player_id,
              taker   |-> IF bluff THEN last_play.player_id ELSE caller_id]]

\* the loop goes on after the game is over
run_game_continues_when_over(gs, count) == count < max_turns

run_game_continues_one_more(gs, count) == ~is_game_over(gs) /\ count <= max_turns

\* run_game line 78: the loop condition
run_game_continues(gs, count) == ~is_game_over(gs) /\ count < max_turns

\* _handle_game_end: the results dictionary (game_log and summary left out)
handle_game_end(gs, count) ==
    LET winner == get_winner(gs)
    IN  [winner      |-> winner,
         turn_count  |-> count,
         final_state |->
             [winner            |-> winner,
              turn_count        |-> count,
              final_hand_counts |-> [p \in Players |-> Len(gs.player_hands[p])],
              center_pile_count |-> get_center_pile_count(gs),
              game_phase        |-> gs.game_phase]]

\* run_game has not returned
NoResults ==
    [winner |-> None, turn_count |-> 0,
     final_state |-> [winner |-> None, turn_count |-> 0,
                      final_hand_counts |-> [p \in Players |-> 0],
                      center_pile_count |-> 0, game_phase |-> SETUP]]

\* a declined challenge throws the pile away
handle_potential_bs_calls_clears_pile(gs, reply) ==
    IF gs.center_pile = <<>>
    THEN [state |-> gs, called |-> FALSE, asked |-> None, call |-> NoCall]
    ELSE LET next_player_id == get_next_player(gs)
             action_result  == get_action(gs, next_player_id, reply)
         IN  IF action_result.action = "call_bs"
             THEN LET r == execute_action(gs, next_player_id, action_result)
                  IN  [state |-> r.state, called |-> r.ret,
                       asked |-> next_player_id, call |-> r.call]
             ELSE [state |-> [gs EXCEPT !.center_pile = <<>>], called |-> FALSE,
                   asked |-> next_player_id, call |-> NoCall]

\* a resolved challenge is reported as not called
handle_potential_bs_calls_forgets_call(gs, reply) ==
    IF gs.center_pile = <<>>
    THEN [state |-> gs, called |-> FALSE, asked |-> None, call |-> NoCall]
    ELSE LET next_player_id == get_next_player(gs)
             action_result  == get_action(gs, next_player_id, reply)
         IN  IF action_result.action = "call_bs"
             THEN LET r == execute_action(gs, next_player_id, action_result)
                  IN  [state |-> r.state, called |-> FALSE,
                       asked |-> next_player_id, call |-> r.call]
             ELSE [state |-> gs, called |-> FALSE,
                   asked |-> next_player_id, call |-> NoCall]

\* _handle_potential_bs_calls: asked is the player whose decision was requested
\* (None when the pile is empty), called is the value returned
handle_potential_bs_calls(gs, reply) ==
    IF gs.center_pile = <<>>
    THEN [state |-> gs, called |-> FALSE, asked |-> None, call |-> NoCall]
    ELSE LET next_player_id == get_next_player(gs)
             action_result  == get_action(gs, next_player_id, reply)
         IN  IF action_result.action = "call_bs"
             THEN LET r == execute_action(gs, next_player_id, action_result)
                  IN  [state |-> r.state, called |-> r.ret,
                       asked |-> next_player_id, call |-> r.call]
             ELSE [state |-> gs, called |-> FALSE,
                   asked |-> next_player_id, call |-> NoCall]

(***************************************************************************)
(* web_server.py                                                           *)
(***************************************************************************)
\* no play request has been answered
NoReply == [action |-> "none", card_indices |-> <<>>]

\* no play_cards call has been made
NoArgs == [claimed_rank |-> 0]

\* the game thread is not inside a GameStateManager call
NoPending == [player_id |-> None, cards |-> <<>>, todo |-> <<>>]

\* the reader has read nothing
NoSnapshot == [part |-> "none", player_hands |-> <<>>, center_pile |-> <<>>]

\* web_server.py lines 37-41 before any request: no orchestrator, no game
\* thread, game_running False; no handler is on the event loop, no
\* /start_game request has arrived and no game thread exists
NoServer ==
    [game_orchestrator |-> None,
     game_thread       |-> None,
     game_running      |-> FALSE,
     on_loop           |-> None,
     handler           |-> [r \in 1..MaxRequests |-> "idle"],
     thread            |-> [t \in 1..MaxRequests |-> [pc |-> "none", runs |-> None]]]

\* the game threads that have been started and have not finished
LiveThreads(srv) == {t \in DOMAIN srv.thread : srv.thread[t].pc \notin {"none", "done"}}

\* get_player_hands_dict: the hands as they are when it runs
get_player_hands_dict(gs) == gs.player_hands

\* get_center_pile_dict: the cards of the pile as they are when it runs
get_center_pile_dict(gs) == AllCards(gs.center_pile)

RECURSIVE SumHands(_, _)
\* the number of cards in the hands of seats i.. of a hands dictionary
SumHands(hands, order) ==
    IF order = <<>> THEN 0 ELSE Len(hands[Head(order)]) + SumHands(hands, Tail(order))

(***************************************************************************)
(* State                                                                   *)
(***************************************************************************)
VARIABLES
    game_state,        \* GameStateManager.game_state
    deck,              \* GameStateManager.deck.cards
    last_call,         \* the most recent GameStateManager call and what it returned
    pc,                \* where run_game is: "idle", "loop", "play", "challenge", "done"
    turn_count,        \* run_game's turn_count
    attempt,           \* _process_turn's attempt
    current_player_id, \* _process_turn's current_player_id
    requests,          \* the get_action calls of the turn being processed
    calls,             \* Spec: the number of GameStateManager calls made so far
    global_game_history, \* ContextManager.global_game_history
    notified,          \* the last notification handed to action_callback
    bs_reply,          \* the action answered to this turn's challenge request
    results,           \* what run_game returned
    awaiting,          \* the player whose get_action call has not returned yet
    pending,           \* SpecWeb: the GameStateManager call the game thread is inside
    snapshot,          \* SpecWeb: what the web server's reader has read
    play_args,         \* Spec: the claimed_rank passed to the last play_cards call
    play_reply,        \* the action and card_indices of the last reply to this turn's play request
    dealt,             \* SpecDeck: what the deal_card calls returned, in order
    deal_count,        \* SpecDeal: the count passed to the last deal_cards call
    server             \* SpecStart: web_server's globals, its request handlers and game threads

orch == <<pc, turn_count, attempt, current_player_id, requests, notified, bs_reply,
          results, awaiting, play_reply>>
web == <<pending, snapshot, server>>
vars == <<game_state, deck, last_call, pc, turn_count, attempt, current_player_id,
          requests, calls, global_game_history, notified, bs_reply, results, awaiting,
          pending, snapshot, play_args, play_reply, dealt,
          deal_count, server>>

Init ==
    \E k \in 0..MaxShuffle :
        LET s == SetupGame(player_ids, k)
        IN  /\ game_state = s.state
            /\ deck = s.deck
            /\ last_call = NoCall
            /\ pc = "idle"
            /\ turn_count = 0
            /\ attempt = 0
            /\ current_player_id = None
            /\ requests = <<>>
            /\ calls = 0
            /\ global_game_history = <<>>
            /\ notified = NoNotification
            /\ bs_reply = ""
            /\ results = NoResults
            /\ awaiting = None
            /\ pending = NoPending
            /\ snapshot = NoSnapshot
            /\ play_args = NoArgs
            /\ play_reply = NoReply
            /\ dealt = <<>>
            /\ deal_count = 0
            /\ server = NoServer

(***************************************************************************)
(* Arguments of the calls                                                  *)
(***************************************************************************)
\* the player seated d seats after the current player
Seat(gs, d) == gs.player_order[((gs.current_player_index + d) % Len(gs.player_order)) + 1]

PlayerArgs(gs) == {Seat(gs, d) : d \in 0..MaxOffset}

\* callers of call_bs: the players of PlayerArgs and the actor of the play on
\* top of the pile, wherever that player is seated
CallerArgs(gs) ==
    PlayerArgs(gs) \cup (IF gs.center_pile = <<>> THEN {} ELSE {TopPlay(gs).player_id})

\* index lists over the first MaxIdx positions of a hand, strictly increasing
IndexLists(hand) ==
    LET top == IF Len(hand) < MaxIdx THEN Len(hand) ELSE MaxIdx
    IN  {<<>>} \cup {<<i>> : i \in 0..(top - 1)}
        \cup {<<i, j>> : i \in 0..(top - 1), j \in 0..(top - 1)}

\* [hand[i] for i in card_indices]
CardsAt(hand, card_indices) ==
    [n \in 1..Len(card_indices) |-> hand[card_indices[n] + 1]]

\* card lists a caller of play_cards may pass: picks from the hand (a repeated
\* index lists a card twice), the whole hand, and each of them followed by a
\* card the player does not hold or by a repeat of its first card
CardArgs(gs, player_id) ==
    LET hand    == gs.player_hands[player_id]
        other   == gs.player_hands[get_next_player(gs)]
        picks   == {CardsAt(hand, il) : il \in IndexLists(hand)} \cup {hand}
        foreign == IF other = <<>> \/ get_next_player(gs) = player_id THEN {}
                   ELSE {Append(c, other[1]) : c \in {<<>>, hand}}
        twice   == IF hand = <<>> THEN {} ELSE {Append(hand, hand[1])}
    IN  picks \cup foreign \cup twice

(***************************************************************************)
(* Actions of Spec: the public operations of GameStateManager              *)
(***************************************************************************)
PlayCards ==
    /\ calls < MaxCalls
    /\ calls' = calls + 1
    /\ \E player_id \in PlayerArgs(game_state) :
       \E cards \in CardArgs(game_state, player_id) :
       \E claimed_rank \in {game_state.current_expected_rank,
                            (game_state.current_expected_rank % KING) + 1} :
       \E claimed_count \in {Len(cards), Len(cards) + 1} :
          LET r == play_cards(game_state, player_id, cards, claimed_rank, claimed_count)
          IN  /\ game_state' = r.state
              /\ last_call' = CallRecord("play_cards", player_id, r.ret, "", NoPlay)
              /\ play_args' = [claimed_rank |-> claimed_rank]
              /\ global_game_history' =
                    IF r.ret THEN RecordPlay(global_game_history, r.state)
                    ELSE global_game_history
              /\ UNCHANGED <<deck, dealt, deal_count, orch, web>>

CallBs ==
    /\ calls < MaxCalls
    /\ calls' = calls + 1
    /\ \E caller_id \in CallerArgs(game_state) :
          LET r == call_bs(game_state, caller_id)
          IN  /\ game_state' = r.state
              /\ last_call' = CallRecord("call_bs", caller_id, r.ret, r.msg,
                                          TopPlay(game_state))
              /\ global_game_history' =
                    IF r.ret THEN RecordCallBs(global_game_history, game_state, caller_id)
                    ELSE global_game_history
              /\ UNCHANGED <<deck, dealt, deal_count, orch, web, play_args>>

AdvanceTurn ==
    /\ calls < MaxCalls
    /\ calls' = calls + 1
    /\ game_state' = advance_turn(game_state)
    /\ last_call' = CallRecord("advance_turn", None, TRUE, "", NoPlay)
    /\ UNCHANGED <<deck, dealt, deal_count, orch, web, global_game_history, play_args>>

Next == PlayCards \/ CallBs \/ AdvanceTurn

Spec == Init /\ [][Next]_vars

(***************************************************************************)
(* Actions of SpecOrch: GameOrchestrator.run_game                          *)
(***************************************************************************)
InitOrch ==
    \E k \in 0..MaxShuffle :
        LET s == SetupGame(player_ids, k)
        IN  /\ game_state = s.state
            /\ deck = s.deck
            /\ last_call = NoCall
            /\ pc = "loop"
            /\ turn_count = 0
            /\ attempt = 0
            /\ current_player_id = None
            /\ requests = <<>>
            /\ calls = 0
            /\ global_game_history = <<>>
            /\ notified = NoNotification
            /\ bs_reply = ""
            /\ results = NoResults
            /\ awaiting = None
            /\ pending = NoPending
            /\ snapshot = NoSnapshot
            /\ play_args = NoArgs
            /\ play_reply = NoReply
            /\ dealt = <<>>
            /\ deal_count = 0
            /\ server = NoServer

NoParameters == [card_indices |-> <<>>, claimed_count |-> 0]

\* index lists an agent may send: picks from the first MaxIdx positions, the
\* whole hand, an index past the end of the hand and a negative index
IndexArgs(hand) ==
    IndexLists(hand) \cup {[n \in 1..Len(hand) |-> n - 1]} \cup {<<Len(hand)>>, <<0 - 1>>}

\* replies of the agent asked to play: any action during the first MaxPlayTurn
\* turns processed, play_cards with cards and any count while
\* turn_number <= MaxPlayTurn, and afterwards only a play_cards without
\* cards, which is rejected
PlayReplies(gs, player_id) ==
    (IF turn_count <= MaxPlayTurn
     THEN {[action |-> a, parameters |-> NoParameters] :
              a \in {"call_bs", "text_response", "error"}}
     ELSE {})
    \cup
    (IF gs.turn_number <= MaxPlayTurn
     THEN {[action |-> "play_cards",
            parameters |-> [card_indices |-> il, claimed_count |-> n]] :
              il \in IndexArgs(gs.player_hands[player_id]), n \in 0..4}
     ELSE {[action |-> "play_cards", parameters |-> NoParameters]})

\* replies of the agent asked for a challenge decision
ChallengeReplies ==
    {[action |-> a, parameters |-> NoParameters] : a \in {"call_bs", "text_response", "error"}}
    \cup {[action |-> "play_cards", parameters |-> [card_indices |-> <<0>>, claimed_count |-> 1]]}

Request(player_id, kind) == [player_id |-> player_id, kind |-> kind]

\* run_game: the loop condition holds and _process_turn starts (lines 78-110)
BeginTurn ==
    /\ pc = "loop"
    /\ run_game_continues(game_state, turn_count)
    /\ turn_count' = turn_count + 1
    /\ current_player_id' = get_current_player(game_state)
    /\ notified' = Notification("turn_start",
                       turn_start_data(game_state, get_current_player(game_state),
                                       turn_count + 1),
                       game_state)
    /\ attempt' = 0
    /\ requests' = <<>>
    /\ bs_reply' = ""
    /\ play_reply' = NoReply
    /\ pc' = "play"
    /\ UNCHANGED <<game_state, deck, dealt, deal_count, last_call, calls, play_args, global_game_history, results,
                   awaiting, web>>

\* BeginTurn within the first MaxTurn turns
StartTurn ==
    /\ turn_count < MaxTurn
    /\ BeginTurn

\* _process_turn lines 113-172 and 188-193: one pass of the attempt loop,
\* the agent having answered reply
PlayAttemptOn(reply) ==
    /\ pc = "play"
    /\    LET action_result == get_action(game_state, current_player_id, reply)
              last == attempt = max_attempts - 1
          IN  /\ requests' = Append(requests, Request(current_player_id, "play"))
              /\ play_reply' = [action |-> reply.action,
                                 card_indices |-> reply.parameters.card_indices]
              /\ IF action_result.action # "play_cards"
                 THEN /\ pc' = IF last THEN "loop" ELSE "play"
                      /\ attempt' = IF last THEN attempt ELSE attempt + 1
                      /\ UNCHANGED <<game_state, last_call, global_game_history, notified, server>>
                 ELSE LET r == execute_action(game_state, current_player_id, action_result)
                      IN  IF r.ret
                          THEN /\ game_state' = r.state
                               /\ last_call' = r.call
                               /\ global_game_history' =
                                     RecordPlay(global_game_history, r.state)
                               /\ notified' =
                                     IF action_result.parameters.card_indices # <<>>
                                     THEN Notification("card_play",
                                              card_play_data(r.state, current_player_id,
                                                             action_result),
                                              r.state)
                                     ELSE notified
                               /\ pc' = "challenge"
                               /\ UNCHANGED attempt
                          ELSE IF last
                          THEN /\ game_state' = advance_turn(r.state)
                               /\ last_call' = CallRecord("advance_turn", None, TRUE, "", NoPlay)
                               /\ pc' = "loop"
                               /\ UNCHANGED <<attempt, global_game_history, notified, server>>
                          ELSE /\ game_state' = r.state
                               /\ last_call' = IF r.call = NoCall THEN last_call ELSE r.call
                               /\ pc' = "play"
                               /\ attempt' = attempt + 1
                               /\ UNCHANGED <<global_game_history, notified, server>>
    /\ awaiting' = None
    /\ UNCHANGED <<deck, dealt, deal_count, turn_count, current_player_id, calls, play_args,
                   bs_reply, results, web>>

PlayAttempt ==
    /\ pc = "play"
    /\ \E reply \in PlayReplies(game_state, current_player_id) : PlayAttemptOn(reply)

\* _process_turn lines 178-187: the challenge opportunity after an accepted
\* play, then advance_turn unless a challenge was resolved
Challenge ==
    /\ pc = "challenge"
    /\ \E reply \in ChallengeReplies :
          LET h == handle_potential_bs_calls(game_state, reply)
          IN  /\ requests' = IF h.asked = None THEN requests
                             ELSE Append(requests, Request(h.asked, "challenge"))
              /\ bs_reply' = IF h.asked = None THEN bs_reply ELSE reply.action
              /\ IF h.called
                 THEN /\ game_state' = h.state
                      /\ last_call' = h.call
                      /\ global_game_history' =
                            RecordCallBs(global_game_history, game_state, h.asked)
                      /\ notified' = Notification("bs_call",
                                         bs_call_data(game_state, h.asked), h.state)
                 ELSE /\ game_state' = advance_turn(h.state)
                      /\ last_call' = CallRecord("advance_turn", None, TRUE, "", NoPlay)
                      /\ UNCHANGED <<global_game_history, notified, server>>
    /\ pc' = "loop"
    /\ awaiting' = None
    /\ UNCHANGED <<deck, dealt, deal_count, turn_count, attempt, current_player_id, calls, play_args,
                   play_reply, results, web>>

\* run_game: the loop condition fails and _handle_game_end returns
HandleGameEnd ==
    /\ pc = "loop"
    /\ ~run_game_continues(game_state, turn_count)
    /\ results' = handle_game_end(game_state, turn_count)
    /\ pc' = "done"
    /\ UNCHANGED <<game_state, deck, dealt, deal_count, last_call, turn_count, attempt, current_player_id,
                   requests, calls, play_args, global_game_history, notified, bs_reply, play_reply, awaiting,
                   web>>

NextOrch == StartTurn \/ PlayAttempt \/ Challenge \/ HandleGameEnd

SpecOrch == InitOrch /\ [][NextOrch]_vars

(***************************************************************************)
(* Actions of SpecWait: run_game with the get_action calls as two steps,   *)
(* the call and its return.  get_action blocks in                          *)
(* loop.run_until_complete(call_openai_api_with_tools(...)), which is      *)
(* given no timeout and is not cancelled; it returns when the model's      *)
(* reply or an exception arrives.                                          *)
(***************************************************************************)
\* _process_turn line 115: get_action of the player on turn is entered
RequestPlay ==
    /\ pc = "play"
    /\ awaiting = None
    /\ awaiting' = current_player_id
    /\ UNCHANGED <<game_state, deck, dealt, deal_count, last_call, pc, turn_count, attempt,
                   current_player_id, requests, calls, play_args, global_game_history, notified,
                   bs_reply, play_reply, results, web>>

\* the call returns and the pass of the attempt loop goes on with the reply
AnswerPlay ==
    /\ awaiting # None
    /\ PlayAttempt

\* _handle_potential_bs_calls line 282: get_action of the next player is entered
RequestChallenge ==
    /\ pc = "challenge"
    /\ awaiting = None
    /\ game_state.center_pile # <<>>
    /\ awaiting' = get_next_player(game_state)
    /\ UNCHANGED <<game_state, deck, dealt, deal_count, last_call, pc, turn_count, attempt,
                   current_player_id, requests, calls, play_args, global_game_history, notified,
                   bs_reply, play_reply, results, web>>

\* the call returns (or, with an empty pile, none was made) and the turn goes on
AnswerChallenge ==
    /\ awaiting # None \/ game_state.center_pile = <<>>
    /\ Challenge

NextWait ==
    StartTurn \/ RequestPlay \/ AnswerPlay \/ RequestChallenge \/ AnswerChallenge
    \/ HandleGameEnd

\* the thread of run_game keeps running its own statements; nothing in the
\* code makes a pending get_action return
SpecWait ==
    /\ InitOrch
    /\ [][NextWait]_vars
    /\ WF_vars(StartTurn)
    /\ WF_vars(RequestPlay)
    /\ WF_vars(RequestChallenge)
    /\ WF_vars(HandleGameEnd)

(***************************************************************************)
(* Actions of SpecRun: run_game up to its own limit of max_turns turns,    *)
(* every get_action call returning.  Until the last MaxRunFree turns the   *)
(* player on turn sends a play_cards without cards, which is rejected, so  *)
(* no game ends early; in the last MaxRunFree turns the agents answer as   *)
(* in SpecWait.                                                            *)
(***************************************************************************)
\* replies of the agent asked to play in SpecRun
RunReplies(gs, player_id) ==
    IF turn_count > max_turns - MaxRunFree
    THEN {[action |-> a, parameters |-> NoParameters] :
             a \in {"call_bs", "text_response", "error"}}
         \cup {[action |-> "play_cards",
                parameters |-> [card_indices |-> il, claimed_count |-> n]] :
                  il \in IndexArgs(gs.player_hands[player_id]), n \in 0..4}
    ELSE {[action |-> "play_cards", parameters |-> NoParameters]}

\* the get_action call of the player on turn returns
RunAnswerPlay ==
    /\ pc = "play"
    /\ awaiting # None
    /\ \E reply \in RunReplies(game_state, current_player_id) : PlayAttemptOn(reply)

NextRun ==
    BeginTurn \/ RequestPlay \/ RunAnswerPlay \/ RequestChallenge \/ AnswerChallenge
    \/ HandleGameEnd

\* the thread of run_game keeps running its own statements and every
\* get_action call returns
SpecRun ==
    /\ InitOrch
    /\ [][NextRun]_vars
    /\ WF_vars(BeginTurn)
    /\ WF_vars(RequestPlay)
    /\ WF_vars(RunAnswerPlay)
    /\ WF_vars(RequestChallenge)
    /\ WF_vars(AnswerChallenge)
    /\ WF_vars(HandleGameEnd)

(***************************************************************************)
(* Properties                                                              *)
(***************************************************************************)
RECURSIVE HandCards(_, _)
\* the cards of the hands of seats i.. (1-based), in seat order
HandCards(gs, i) ==
    IF i > Len(gs.player_order) THEN <<>>
    ELSE gs.player_hands[gs.player_order[i]] \o HandCards(gs, i + 1)

CardsInPlay(gs) == HandCards(gs, 1) \o AllCards(gs.center_pile)

\* the player seated right after player_id in player_order
SuccessorOf(gs, player_id) ==
    gs.player_order[((IndexOf(gs.player_order, player_id) + 1) % Len(gs.player_order)) + 1]

NextRank(r) == (r % 13) + 1

\* C1: in every reachable state the hand sizes plus the number of cards in the
\* center pile total 52, and no card is present twice.
C1_CardConservation ==
    LET all == CardsInPlay(game_state)
    IN  /\ Len(all) = 52
        /\ \A i, j \in 1..Len(all) : i # j => all[i] # all[j]

\* C2: play_cards by a player other than the current player returns False and
\* leaves the game state as it was.
C2_NotYourTurn ==
    [][(/\ last_call'.op = "play_cards"
        /\ last_call'.player_id # get_current_player(game_state))
       => (last_call'.ret = FALSE /\ game_state' = game_state)]_vars

C2_Witness ==
    /\ last_call.op = "play_cards"
    /\ last_call.player_id # get_current_player(game_state)
    /\ last_call.player_id \in Players
    /\ ~last_call.ret

\* C3: call_bs succeeds only for the player seated right after the actor of the
\* most recent play; every other caller is rejected with the state unchanged.
C3_OnlyNextMayChallenge ==
    [][(last_call'.op = "call_bs" /\ game_state.center_pile # <<>>)
       => IF last_call'.player_id = SuccessorOf(game_state, TopPlay(game_state).player_id)
          THEN TRUE
          ELSE last_call'.ret = FALSE /\ game_state' = game_state]_vars

\* C4: a rejected play_cards or call_bs leaves the whole game state as it was.
C4_RejectionKeepsState ==
    [][(last_call'.op \in {"play_cards", "call_bs"} /\ ~last_call'.ret)
       => game_state' = game_state]_vars

\* C5: an accepted call_bs resolves the most recent play as a bluff exactly when
\* at least one of its cards differs in rank from the claimed rank, and as
\* truthful exactly when every card matches; the loser named by the verdict
\* is the one who takes the pile.
C5_BluffIffSomeMismatch ==
    [][(last_call'.op = "call_bs" /\ last_call'.ret)
       => LET last_play == TopPlay(game_state)
              mismatch  == \E i \in 1..Len(last_play.cards) :
                              last_play.cards[i].rank # last_play.claimed_rank
              loser     == IF mismatch THEN last_play.player_id
                           ELSE last_call'.player_id
          IN  /\ is_bluffing(last_play.cards, last_play.claimed_rank) <=> mismatch
              /\ last_call'.msg = (IF mismatch THEN "correctly" ELSE "incorrectly")
              /\ game_state'.last_action[1] = last_call'.msg
              /\ Len(game_state'.player_hands[loser]) =
                    Len(game_state.player_hands[loser])
                    + get_center_pile_count(game_state)]_vars

\* a challenge on a play with some matching and some non-matching cards
C5_Witness ==
    /\ last_call.op = "call_bs"
    /\ last_call.ret
    /\ last_call.msg = "correctly"
    /\ \E i, j \in 1..Len(last_call.last_play.cards) :
          /\ last_call.last_play.cards[i].rank = last_call.last_play.claimed_rank
          /\ last_call.last_play.cards[j].rank # last_call.last_play.claimed_rank

\* C7: the winner changes only from unset to a player p, in the step in which
\* p's own accepted play_cards removes the last card from p's hand.
C7_WinnerOnlyByOwnLastCard ==
    [][game_state'.winner # game_state.winner
       => /\ game_state.winner = None
          /\ last_call'.op = "play_cards"
          /\ last_call'.ret
          /\ last_call'.player_id = game_state'.winner
          /\ Len(game_state.player_hands[game_state'.winner]) > 0
          /\ Len(game_state'.player_hands[game_state'.winner]) = 0]_vars

\* C8: winner is set if and only if game_phase is GAME_OVER.
C8_WinnerIffGameOver ==
    (game_state.winner # None) <=> (game_state.game_phase = GAME_OVER)

C8_Witness ==
    /\ game_state.winner \in Players
    /\ game_state.game_phase = GAME_OVER
    /\ last_call.op = "play_cards"
    /\ last_call.ret

\* C6: every turn transition of run_game - a declined challenge followed by
\* advance_turn, a resolved challenge, a forced advance after failed plays -
\* moves the expected rank from r to (r mod 13) + 1 exactly once together with
\* the turn number, and no other step changes the expected rank.
C6_RankAdvancesOncePerTurn ==
    [][LET r  == game_state.current_expected_rank
           r2 == game_state'.current_expected_rank
           moved == \/ game_state'.turn_number # game_state.turn_number
                    \/ game_state'.current_player_index # game_state.current_player_index
                    \/ r2 # r
       IN  /\ moved => /\ r2 = NextRank(r)
                       /\ game_state'.turn_number = game_state.turn_number + 1
                       /\ pc \in {"play", "challenge"} /\ pc' = "loop"
                       /\ \/ last_call'.op = "advance_turn"
                          \/ last_call'.op = "call_bs" /\ last_call'.ret
           /\ (pc = "challenge" /\ pc' = "loop") => moved
           /\ (pc = "play" /\ pc' = "challenge") => ~moved]_vars

\* the turn that follows a King turn expects an Ace again
C6_Witness ==
    /\ game_state.turn_number = 14
    /\ game_state.current_expected_rank = ACE
    /\ pc = "loop"
    /\ last_call.op = "advance_turn"

\* C9: once the game is over no step of run_game changes a hand, the center
\* pile, the current player index, the expected rank, the turn number or the
\* winner.
C9_FrozenAfterGameOver ==
    [][is_game_over(game_state)
       => /\ game_state'.player_hands = game_state.player_hands
          /\ game_state'.center_pile = game_state.center_pile
          /\ game_state'.current_player_index = game_state.current_player_index
          /\ game_state'.current_expected_rank = game_state.current_expected_rank
          /\ game_state'.turn_number = game_state.turn_number
          /\ game_state'.winner = game_state.winner]_vars

\* C10: after an accepted play that empties the actor's hand no challenge
\* decision is requested and nothing further is done on that turn.
C10_NoChallengeAfterWinningPlay ==
    [][(pc = "challenge" /\ game_state.winner = current_player_id)
       => /\ requests' = requests
          /\ game_state' = game_state]_vars

\* the hands of every player except p are the same in gs and gs2
OtherHandsKept(gs, gs2, p) ==
    \A q \in Players : q # p => gs2.player_hands[q] = gs.player_hands[q]

\* C11: an accepted call_bs on a bluff gives the actor of the most recent play
\* every card of the center pile (all the plays on it, oldest first), empties
\* the pile, makes the challenger the current player and moves the expected
\* rank one step on from its value before the call; no other hand changes.
C11_BluffPileToActor ==
    [][(last_call'.op = "call_bs" /\ last_call'.ret
        /\ ~AllMatch(TopPlay(game_state).cards, TopPlay(game_state).claimed_rank))
       => LET actor == TopPlay(game_state).player_id
          IN  /\ game_state'.player_hands[actor] =
                    game_state.player_hands[actor] \o AllCards(game_state.center_pile)
              /\ Len(game_state'.player_hands[actor]) =
                    Len(game_state.player_hands[actor]) + get_center_pile_count(game_state)
              /\ game_state'.center_pile = <<>>
              /\ get_current_player(game_state') = last_call'.player_id
              /\ game_state'.current_expected_rank =
                    NextRank(game_state.current_expected_rank)
              /\ OtherHandsKept(game_state, game_state', actor)]_vars

\* a bluff caught with two one-card plays on the pile: both cards are back at
\* the end of the actor's hand, behind the cards that never left it
C11_Witness ==
    /\ last_call.op = "call_bs"
    /\ last_call.ret
    /\ last_call.msg = "correctly"
    /\ game_state.center_pile = <<>>
    /\ Len(last_call.last_play.cards) = 1
    /\ get_current_player(game_state) = last_call.player_id
    /\ LET hand == game_state.player_hands[last_call.last_play.player_id]
       IN  /\ Len(hand) = 4
           /\ hand[4] = last_call.last_play.cards[1]
           /\ hand[3].rank # last_call.last_play.claimed_rank
           /\ hand[2].rank = last_call.last_play.claimed_rank

C13_DeclineKeepsPile ==
    [][(pc = "challenge" /\ last_call'.op = "advance_turn")
       => /\ game_state'.player_hands = game_state.player_hands
          /\ game_state.center_pile # <<>>
          /\ game_state'.center_pile = game_state.center_pile
          /\ TopPlay(game_state).player_id = current_player_id
          /\ get_current_player(game_state') = SuccessorOf(game_state, current_player_id)
          /\ game_state'.current_expected_rank =
                NextRank(TopPlay(game_state).claimed_rank)
          /\ game_state'.turn_number = game_state.turn_number + 1]_vars

\* two unchallenged turns in a row: the pile holds the plays of both turns
C13_Witness ==
    /\ pc = "loop"
    /\ last_call.op = "advance_turn"
    /\ Len(requests) >= 2
    /\ requests[Len(requests)].kind = "challenge"
    /\ Len(game_state.center_pile) = 2
    /\ game_state.center_pile[1].turn_number = 1
    /\ game_state.center_pile[2].turn_number = 2
    /\ game_state.center_pile[1].player_id # game_state.center_pile[2].player_id
    /\ get_center_pile_count(game_state) >= 2
    /\ game_state.turn_number = 3
    /\ game_state.current_expected_rank = 3

RECURSIVE Without(_, _)
\* hand with the cards of the list cards taken out, the rest in their order
Without(hand, cards) ==
    IF hand = <<>> THEN <<>>
    ELSE (IF InList(cards, Head(hand)) THEN <<>> ELSE <<Head(hand)>>)
         \o Without(Tail(hand), cards)

\* C14: an accepted play_cards of k cards takes exactly those k cards out of
\* the actor's hand and appends one play record holding them, with the actor,
\* the claimed rank and the current turn number, to the end of the center
\* pile; the other hands, the earlier pile entries, the current player index,
\* the expected rank and the turn number stay as they were.
C14_PlayMovesSelectedCards ==
    [][(last_call'.op = "play_cards" /\ last_call'.ret)
       => LET actor == last_call'.player_id
              hand  == game_state.player_hands[actor]
              play  == TopPlay(game_state')
          IN  /\ Len(game_state'.center_pile) = Len(game_state.center_pile) + 1
              /\ SubSeq(game_state'.center_pile, 1, Len(game_state.center_pile))
                    = game_state.center_pile
              /\ play.player_id = actor
              /\ play.claimed_rank = game_state.current_expected_rank
              /\ play.claimed_count = Len(play.cards)
              /\ play.turn_number = game_state.turn_number
              /\ \A i \in 1..Len(play.cards) : InList(hand, play.cards[i])
              /\ \A i, j \in 1..Len(play.cards) : i # j => play.cards[i] # play.cards[j]
              /\ game_state'.player_hands[actor] = Without(hand, play.cards)
              /\ Len(game_state'.player_hands[actor]) = Len(hand) - Len(play.cards)
              /\ OtherHandsKept(game_state, game_state', actor)
              /\ game_state'.current_player_index = game_state.current_player_index
              /\ game_state'.current_expected_rank = game_state.current_expected_rank
              /\ game_state'.turn_number = game_state.turn_number]_vars

\* a second play of the turn: one card has left the hand and lies on top of
\* the play made before it
C14_Witness ==
    /\ last_call.op = "play_cards"
    /\ last_call.ret
    /\ Len(game_state.center_pile) = 2
    /\ Len(game_state.center_pile[1].cards) = 1
    /\ Len(game_state.center_pile[2].cards) = 1
    /\ game_state.center_pile[2].player_id = last_call.player_id
    /\ Len(game_state.player_hands[last_call.player_id]) = 2
    /\ ~InList(game_state.player_hands[last_call.player_id],
               game_state.center_pile[2].cards[1])

\* C15: within a turn run_game makes its requests one at a time: play requests
\* go to the player on turn, at most max_attempts of them; a challenge request
\* is made only right after that player's play was accepted, only to the
\* player seated after the actor, and it is the last request of the turn, so
\* there is at most one and no other player is asked.  get_action returns
\* before the next statement runs, so a request is outstanding only inside
\* the step that makes it.
C15_OneChallengerAfterAcceptedPlay ==
    [][(requests' # requests /\ requests' # <<>>)
       => LET req == requests'[Len(requests')]
          IN  /\ requests' = Append(requests, req)
              /\ \A i \in 1..Len(requests) :
                    /\ requests[i].kind = "play"
                    /\ requests[i].player_id = current_player_id
              /\ req.kind \in {"play", "challenge"}
              /\ req.kind = "play"
                    => /\ pc = "play"
                       /\ req.player_id = current_player_id
                       /\ req.player_id = get_current_player(game_state)
                       /\ Len(requests) < max_attempts
              /\ req.kind = "challenge"
                    => /\ pc = "challenge"
                       /\ pc' = "loop"
                       /\ last_call = CallRecord("play_cards", current_player_id,
                                                  TRUE, "", NoPlay)
                       /\ TopPlay(game_state).player_id = current_player_id
                       /\ req.player_id = SuccessorOf(game_state, current_player_id)
                       /\ req.player_id # current_player_id]_vars

\* a turn in which the first play request failed, the second was accepted
\* and the player seated after the actor was then asked for a challenge
C15_Witness ==
    /\ pc = "loop"
    /\ Len(requests) = 3
    /\ requests[1] = Request(current_player_id, "play")
    /\ requests[2] = Request(current_player_id, "play")
    /\ requests[3].kind = "challenge"
    /\ requests[3].player_id = SuccessorOf(game_state, current_player_id)
    /\ requests[3].player_id # current_player_id

\* C16: a play request that yields no accepted play is repeated, at most
\* max_attempts = 3 requests per turn; when the attempts are used up the turn
\* is forfeited: the turn passes to the next player, whether the failures
\* were non-play replies or rejected plays and in whatever order they came.
C16_ForfeitPassesTurn ==
    [][/\ Len(requests') <= max_attempts + 1
       /\ (pc = "play" /\ pc' = "play") => attempt' = attempt + 1 /\ attempt' < max_attempts
       /\ (pc = "play" /\ pc' = "loop")
             => /\ Len(requests') = max_attempts
                /\ get_current_player(game_state') =
                      SuccessorOf(game_state, current_player_id)
                /\ game_state'.turn_number = game_state.turn_number + 1]_vars

\* C17: run_game starts no turn once the game is over: the first time the
\* loop condition is tested with the game over it returns, and the winner it
\* returns is the winner recorded in the game state at that moment.
C17_StopsAtGameOver ==
    [][/\ (pc = "loop" /\ pc' = "play") => ~is_game_over(game_state)
       /\ (pc = "loop" /\ is_game_over(game_state))
             => /\ pc' = "done"
                /\ results'.winner = game_state.winner
                /\ results'.winner \in Players
                /\ results'.turn_count = turn_count
                /\ game_state' = game_state
       /\ pc' = "done" => pc = "loop"
       /\ pc' # "done" => results' = NoResults]_vars

\* run_game has returned the player whose play emptied the hand, in the
\* turn in which that play was made
C17_Witness ==
    /\ pc = "done"
    /\ is_game_over(game_state)
    /\ results.winner \in Players
    /\ results.winner = game_state.winner
    /\ results.winner = current_player_id
    /\ results.turn_count = turn_count
    /\ turn_count >= 1

\* the index lists that select n different cards of hand
Selections(hand, n) ==
    {il \in [1..n -> 0..(Len(hand) - 1)] : \A i, j \in 1..n : i # j => il[i] # il[j]}

\* the play_cards reply that selects the cards at card_indices
PlayReply(card_indices) ==
    [action |-> "play_cards",
     parameters |-> [card_indices |-> card_indices, claimed_count |-> Len(card_indices)]]

\* C18: the card_play notification of an accepted play does not depend on
\* which cards were put down: had the actor selected any other cards, as many
\* of them and as truthfully, the notification would have been the same.
C18_PlayEventHidesCards ==
    [][(pc = "play" /\ pc' = "challenge")
       => /\ notified'.type = "card_play"
          /\ \A il \in Selections(game_state.player_hands[current_player_id],
                                    notified'.data.claimed_count) :
                LET action_result == get_action(game_state, current_player_id, PlayReply(il))
                    r    == execute_action(game_state, current_player_id, action_result)
                    data == card_play_data(r.state, current_player_id, action_result)
                IN  (r.ret /\ data.is_truthful = notified'.data.is_truthful)
                    => Notification("card_play", data, r.state) = notified']_vars

\* C19: what a player is handed when a decision is requested does not depend
\* on the cards of a play that has not been challenged: after an accepted
\* play the messages built for the player about to be asked for a challenge
\* are the same as they would be had the actor put down any other cards of
\* the same number, truthful or not.
C19_DecisionInputHidesCards ==
    [][(pc = "play" /\ pc' = "challenge")
       => LET challenger == get_next_player(game_state')
          IN  \A il \in Selections(game_state.player_hands[current_player_id],
                                    TopPlay(game_state').claimed_count) :
                LET action_result == get_action(game_state, current_player_id, PlayReply(il))
                    r == execute_action(game_state, current_player_id, action_result)
                IN  r.ret
                    => messages(r.state, RecordPlay(global_game_history, r.state),
                                challenger)
                       = messages(game_state', global_game_history', challenger)]_vars

\* C20: when the player asked for a challenge decision answers with anything
\* but call_bs - the request failed, a text response, a play_cards action -
\* no challenge is resolved, no card moves and the turn advances in seat
\* order, to the same state whatever the answer was.
C20_NonChallengeIsDecline ==
    [][(pc = "challenge" /\ bs_reply' \in {"error", "text_response", "play_cards"})
       => /\ last_call'.op = "advance_turn"
          /\ game_state'.player_hands = game_state.player_hands
          /\ game_state'.center_pile = game_state.center_pile
          /\ game_state'.last_action = game_state.last_action
          /\ game_state'.winner = game_state.winner
          /\ game_state'.game_phase = game_state.game_phase
          /\ get_current_player(game_state') = SuccessorOf(game_state, current_player_id)
          /\ game_state'.turn_number = game_state.turn_number + 1
          /\ game_state'.current_expected_rank =
                NextRank(game_state.current_expected_rank)
          /\ global_game_history' = global_game_history
          /\ notified' = notified
          /\ pc' = "loop"]_vars

\* the challenge request of the turn failed and the turn moved on with the
\* play left on the pile
C20_Witness ==
    /\ pc = "loop"
    /\ bs_reply = "error"
    /\ requests # <<>>
    /\ requests[Len(requests)].kind = "challenge"
    /\ last_call.op = "advance_turn"
    /\ game_state.center_pile # <<>>
    /\ TopPlay(game_state).player_id = current_player_id
    /\ notified.type = "card_play"
    /\ get_current_player(game_state) = requests[Len(requests)].player_id

(***************************************************************************)
(* Actions of SpecWeb: the game thread started by /start_game runs the     *)
(* statements of play_cards, call_bs and advance_turn one after another,   *)
(* while the server's event-loop thread answers /game_state and /ws by     *)
(* reading game_state.player_hands and game_state.center_pile.  No lock is *)
(* taken by either thread, so the reads fall between any two statements.   *)
(***************************************************************************)
InitWeb ==
    \E k \in 0..MaxShuffle :
        LET s == SetupGame(player_ids, k)
        IN  /\ game_state = s.state
            /\ deck = s.deck
            /\ last_call = NoCall
            /\ pc = "web_play"
            /\ turn_count = 0
            /\ attempt = 0
            /\ current_player_id = None
            /\ requests = <<>>
            /\ calls = 0
            /\ global_game_history = <<>>
            /\ notified = NoNotification
            /\ bs_reply = ""
            /\ results = NoResults
            /\ awaiting = None
            /\ pending = NoPending
            /\ snapshot = NoSnapshot
            /\ play_args = NoArgs
            /\ play_reply = NoReply
            /\ dealt = <<>>
            /\ deal_count = 0
            /\ server = NoServer

\* the selections validate_play_cards_action lets through, over the first
\* MaxIdx + 1 positions of the hand
ValidSelections(hand) ==
    LET top == IF Len(hand) < MaxIdx + 1 THEN Len(hand) ELSE MaxIdx + 1
    IN  {<<i>> : i \in 0..(top - 1)}
        \cup {il \in {<<i, j>> : i \in 0..(top - 1), j \in 0..(top - 1)} : il[1] # il[2]}

\* play_cards lines 122-132, called by _execute_play_cards for the player on
\* turn with cards of the hand: the three checks pass
WebBeginPlay ==
    /\ pc = "web_play"
    /\ ~is_game_over(game_state)
    /\ game_state.turn_number <= MaxPlayTurn
    /\ LET player_id == get_current_player(game_state)
           hand      == game_state.player_hands[player_id]
       IN  \E il \in ValidSelections(hand) :
              pending' = [player_id |-> player_id, cards |-> CardsAt(hand, il),
                          todo |-> CardsAt(hand, il)]
    /\ pc' = "web_remove"
    /\ UNCHANGED <<game_state, deck, dealt, deal_count, last_call, turn_count, attempt, current_player_id,
                   requests, calls, play_args, global_game_history, notified, bs_reply, play_reply, results,
                   awaiting, snapshot, server>>

\* play_cards lines 133-135: one pass of the removal loop
WebRemoveCard ==
    /\ pc = "web_remove"
    /\ pending.todo # <<>>
    /\ game_state' = [game_state EXCEPT !.player_hands[pending.player_id] =
                                           ListRemove(@, Head(pending.todo))]
    /\ pending' = [pending EXCEPT !.todo = Tail(@)]
    /\ UNCHANGED <<deck, dealt, deal_count, last_call, pc, turn_count, attempt, current_player_id,
                   requests, calls, play_args, global_game_history, notified, bs_reply, play_reply, results,
                   awaiting, snapshot, server>>

\* play_cards lines 139-170: the play is appended to the pile and the call
\* returns
WebAppendPlay ==
    /\ pc = "web_remove"
    /\ pending.todo = <<>>
    /\ LET player_id    == pending.player_id
           played_cards == [cards         |-> pending.cards,
                            claimed_rank  |-> game_state.current_expected_rank,
                            claimed_count |-> Len(pending.cards),
                            player_id     |-> player_id,
                            turn_number   |-> game_state.turn_number]
           g2 == [game_state EXCEPT !.center_pile = Append(@, played_cards)]
       IN  /\ game_state' =
                 IF Len(g2.player_hands[player_id]) = 0
                 THEN declare_winner(g2, player_id)
                 ELSE [g2 EXCEPT !.last_action =
                                    <<"played", player_id, Len(pending.cards)>>]
           /\ global_game_history' = RecordPlay(global_game_history, g2)
           /\ last_call' = CallRecord("play_cards", player_id, TRUE, "", NoPlay)
    /\ pending' = NoPending
    /\ pc' = "web_challenge"
    /\ UNCHANGED <<deck, dealt, deal_count, turn_count, attempt, current_player_id, requests, calls, play_args,
                   notified, bs_reply, play_reply, results, awaiting, snapshot, server>>

\* _process_turn lines 178-187 when the next player does not challenge
WebDecline ==
    /\ pc = "web_challenge"
    /\ game_state' = advance_turn(game_state)
    /\ last_call' = CallRecord("advance_turn", None, TRUE, "", NoPlay)
    /\ pc' = "web_play"
    /\ UNCHANGED <<deck, dealt, deal_count, turn_count, attempt, current_player_id, requests, calls, play_args,
                   global_game_history, notified, bs_reply, play_reply, results, awaiting, web>>

\* call_bs lines 172-198 / 222 and _player_takes_center_pile lines 248-252:
\* the next player's call passes the checks and the loser's hand is extended
\* with the cards of the pile
WebTakeCards ==
    /\ pc = "web_challenge"
    /\ LET caller_id == get_next_player(game_state)
           last_play == TopPlay(game_state)
           loser     == IF was_bs(last_play) THEN last_play.player_id ELSE caller_id
       IN  /\ game_state' = [game_state EXCEPT !.player_hands[loser] =
                                                  @ \o AllCards(game_state.center_pile)]
           /\ pending' = [player_id |-> caller_id, cards |-> last_play.cards,
                           todo |-> <<>>]
           /\ global_game_history' =
                 add_game_action(global_game_history, game_state.turn_number, "call_bs",
                                 caller_id, [target_player |-> last_play.player_id])
    /\ pc' = "web_take"
    /\ UNCHANGED <<deck, dealt, deal_count, last_call, turn_count, attempt, current_player_id, requests,
                   calls, play_args, notified, bs_reply, play_reply, results, awaiting, snapshot, server>>

\* _player_takes_center_pile line 253 and call_bs lines 199-244: the pile is
\* emptied, the turn moves and the call returns
WebClearPile ==
    /\ pc = "web_take"
    /\ LET caller_id == pending.player_id
           last_play == TopPlay(game_state)
           bluff     == was_bs(last_play)
           g1 == [game_state EXCEPT !.center_pile = <<>>]
       IN  /\ game_state' =
                 IF bluff
                 THEN advance_rank([g1 EXCEPT
                          !.last_action = <<"correctly", caller_id, last_play.player_id>>,
                          !.current_player_index = IndexOf(g1.player_order, caller_id),
                          !.turn_number = @ + 1])
                 ELSE advance_turn([g1 EXCEPT
                          !.last_action = <<"incorrectly", caller_id, last_play.player_id>>])
           /\ last_call' = CallRecord("call_bs", caller_id, TRUE,
                                       IF bluff THEN "correctly" ELSE "incorrectly",
                                       last_play)
    /\ pending' = NoPending
    /\ pc' = "web_play"
    /\ UNCHANGED <<deck, dealt, deal_count, turn_count, attempt, current_player_id, requests, calls, play_args,
                   global_game_history, notified, bs_reply, play_reply, results, awaiting, snapshot, server>>

\* get_game_state lines 316-320 / websocket_endpoint lines 410-416: the
\* hands are read first
ReadHands ==
    /\ snapshot.part = "none"
    /\ snapshot' = [part |-> "hands",
                    player_hands |-> get_player_hands_dict(game_state),
                    center_pile |-> <<>>]
    /\ UNCHANGED <<game_state, deck, dealt, deal_count, last_call, orch, calls, play_args, global_game_history,
                   pending, server>>

\* ... and the center pile after them; the response is then sent
ReadCenterPile ==
    /\ snapshot.part = "hands"
    /\ snapshot' = [snapshot EXCEPT !.part = "sent",
                                    !.center_pile = get_center_pile_dict(game_state)]
    /\ UNCHANGED <<game_state, deck, dealt, deal_count, last_call, orch, calls, play_args, global_game_history,
                   pending, server>>

NextWeb ==
    WebBeginPlay \/ WebRemoveCard \/ WebAppendPlay \/ WebDecline \/ WebTakeCards
    \/ WebClearPile \/ ReadHands \/ ReadCenterPile

SpecWeb == InitWeb /\ [][NextWeb]_vars

(***************************************************************************)
(* Actions of SpecAgent: any player's AIPlayer is asked for an action and  *)
(* executes it (get_action, then execute_action on what it returned), and  *)
(* the turn is advanced, in any order                                      *)
(***************************************************************************)
\* AIPlayer.get_action followed by AIPlayer.execute_action for one player
AgentAct ==
    /\ calls < MaxCalls
    /\ calls' = calls + 1
    /\ \E player_id \in PlayerArgs(game_state) :
       \E reply \in PlayReplies(game_state, player_id) \cup ChallengeReplies :
          LET action_result == get_action(game_state, player_id, reply)
              r == execute_action(game_state, player_id, action_result)
          IN  /\ game_state' = r.state
              /\ last_call' = r.call
              /\ requests' = <<Request(player_id, "act")>>
              /\ play_reply' = [action |-> reply.action,
                                 card_indices |-> reply.parameters.card_indices]
              /\ global_game_history' =
                    IF ~r.ret THEN global_game_history
                    ELSE IF r.call.op = "play_cards"
                         THEN RecordPlay(global_game_history, r.state)
                         ELSE RecordCallBs(global_game_history, game_state, player_id)
    /\ UNCHANGED <<deck, dealt, deal_count, pc, turn_count, attempt, current_player_id,
                   notified, bs_reply, results, awaiting, web, play_args>>

NextAgent == AgentAct \/ AdvanceTurn

SpecAgent == Init /\ [][NextAgent]_vars

(***************************************************************************)
(* Actions of SpecSetup: GameStateManager(player_ids) for 1..DeckSize      *)
(* players, the constructor up to the Deck() call and then _setup_game     *)
(***************************************************************************)
\* the ids of n players, seat i holding player 100 + i
PlayerIds(n) == [i \in 1..n |-> 100 + i]

\* __init__ lines 33-45: the GameState before _setup_game runs
NewGameState(ids) ==
    [player_hands          |-> <<>>,
     center_pile           |-> <<>>,
     current_player_index  |-> 0,
     player_order          |-> ids,
     current_expected_rank |-> ACE,
     turn_number           |-> 1,
     game_phase            |-> SETUP,
     winner                |-> None,
     last_action           |-> NoAction]

InitSetup ==
    \E n \in 1..DeckSize :
        /\ game_state = NewGameState(PlayerIds(n))
        /\ deck = CreateDeck
        /\ last_call = NoCall
        /\ pc = "new"
        /\ turn_count = 0
        /\ attempt = 0
        /\ current_player_id = None
        /\ requests = <<>>
        /\ calls = 0
        /\ global_game_history = <<>>
        /\ notified = NoNotification
        /\ bs_reply = ""
        /\ results = NoResults
        /\ awaiting = None
        /\ pending = NoPending
        /\ snapshot = NoSnapshot
        /\ play_args = NoArgs
        /\ play_reply = NoReply
        /\ dealt = <<>>
        /\ deal_count = 0
        /\ server = NoServer

\* _setup_game, the shuffle drawn from Shuffle(cards, 0..MaxDealShuffle)
Setup ==
    /\ pc = "new"
    /\ \E k \in 0..MaxDealShuffle :
          LET s == SetupGame(game_state.player_order, k)
          IN  /\ game_state' = s.state
              /\ deck' = s.deck
    /\ pc' = "ready"
    /\ UNCHANGED <<last_call, turn_count, attempt, current_player_id, requests, calls,
                   global_game_history, notified, bs_reply, results, awaiting, web,
                   play_args, play_reply, dealt, deal_count>>

NextSetup == Setup

SpecSetup == InitSetup /\ [][NextSetup]_vars

(***************************************************************************)
(* Actions of SpecDeck: a Deck on its own, shuffled once or not at all     *)
(* and dealt card by card (test_card_system)                               *)
(***************************************************************************)
InitDeck ==
    /\ game_state = NewGameState(<<>>)
    /\ deck = CreateDeck
    /\ last_call = NoCall
    /\ pc = "deck"
    /\ turn_count = 0
    /\ attempt = 0
    /\ current_player_id = None
    /\ requests = <<>>
    /\ calls = 0
    /\ global_game_history = <<>>
    /\ notified = NoNotification
    /\ bs_reply = ""
    /\ results = NoResults
    /\ awaiting = None
    /\ pending = NoPending
    /\ snapshot = NoSnapshot
    /\ play_args = NoArgs
    /\ play_reply = NoReply
    /\ dealt = <<>>
    /\ deal_count = 0
    /\ server = NoServer

\* Deck.shuffle on the new deck
DeckShuffle ==
    /\ pc = "deck"
    /\ dealt = <<>>
    /\ \E k \in 0..MaxDealShuffle : deck' = Shuffle(deck, k)
    /\ pc' = "shuffled"
    /\ UNCHANGED <<game_state, last_call, turn_count, attempt, current_player_id,
                   requests, calls, global_game_history, notified, bs_reply, results,
                   awaiting, web, play_args, play_reply, dealt, deal_count>>

\* Deck.deal_card, also on an empty deck, where it returns None
DealCard ==
    /\ pc \in {"deck", "shuffled"}
    /\ Len(dealt) <= DeckSize
    /\ LET d == deal_card(deck)
       IN  /\ deck' = d.cards
           /\ dealt' = Append(dealt, d.card)
    /\ UNCHANGED <<game_state, last_call, pc, turn_count, attempt, current_player_id,
                   requests, calls, global_game_history, notified, bs_reply, results,
                   awaiting, web, play_args, play_reply, deal_count>>

NextDeck == DeckShuffle \/ DealCard

SpecDeck == InitDeck /\ [][NextDeck]_vars

(***************************************************************************)
(* Actions of SpecDeal: a Deck shuffled once or not at all and dealt with  *)
(* deal_cards(count)                                                       *)
(***************************************************************************)
\* Deck.deal_cards(count): the loop calls deal_card count times and stops at
\* the first None, which is the last thing deal_card returned
DealCards ==
    /\ pc \in {"deck", "shuffled"}
    /\ Len(dealt) <= DeckSize
    /\ \E count \in 0..MaxDeal :
          LET d == deal_cards(deck, count)
          IN  /\ deal_count' = count
              /\ deck' = d.cards
              /\ dealt' = dealt \o d.dealt
                             \o (IF Len(d.dealt) < count THEN <<NoCard>> ELSE <<>>)
    /\ UNCHANGED <<game_state, last_call, pc, turn_count, attempt, current_player_id,
                   requests, calls, global_game_history, notified, bs_reply, results,
                   awaiting, web, play_args, play_reply>>

NextDeal == DeckShuffle \/ DealCards

SpecDeal == InitDeck /\ [][NextDeal]_vars

(***************************************************************************)
(* Actions of SpecStart: the /start_game handlers, which run one at a time *)
(* on the event loop up to their first await, and the game threads they    *)
(* start, which run beside the event loop.  Request r creates orchestrator *)
(* r and thread r.                                                         *)
(***************************************************************************)
\* everything but the server's own state: the games themselves
games == <<game_state, deck, dealt, deal_count, last_call, orch, calls,
           global_game_history, play_args, pending, snapshot>>

\* the server before the first request: no game has been created
InitStart ==
    /\ game_state = NewGameState(<<>>)
    /\ deck = <<>>
    /\ last_call = NoCall
    /\ pc = "server"
    /\ turn_count = 0
    /\ attempt = 0
    /\ current_player_id = None
    /\ requests = <<>>
    /\ calls = 0
    /\ global_game_history = <<>>
    /\ notified = NoNotification
    /\ bs_reply = ""
    /\ results = NoResults
    /\ awaiting = None
    /\ pending = NoPending
    /\ snapshot = NoSnapshot
    /\ play_args = NoArgs
    /\ play_reply = NoReply
    /\ dealt = <<>>
    /\ deal_count = 0
    /\ server = NoServer

\* start_game lines 264-265: the request enters and tests game_running
StartGameEnter(r) ==
    /\ server.handler[r] = "idle"
    /\ server.on_loop = None
    /\ server' = IF server.game_running
                  THEN [server EXCEPT !.handler[r] = "refused"]
                  ELSE [server EXCEPT !.handler[r] = "create", !.on_loop = r]
    /\ UNCHANGED games

\* start_game lines 267-276: game_orchestrator = GameOrchestrator(...)
StartGameCreate(r) ==
    /\ server.handler[r] = "create"
    /\ server' = [server EXCEPT !.game_orchestrator = r, !.handler[r] = "start"]
    /\ UNCHANGED games

\* start_game lines 279-292: the thread is started, the start event is
\* broadcast and the handler returns success
StartGameThread(r) ==
    /\ server.handler[r] = "start"
    /\ server' = [server EXCEPT !.game_thread = r,
                                 !.thread[r] = [pc |-> "started", runs |-> None],
                                 !.handler[r] = "started",
                                 !.on_loop = None]
    /\ UNCHANGED games

\* run_game_loop lines 225-226: return when there is no orchestrator
ThreadCheck(t) ==
    /\ server.thread[t].pc = "started"
    /\ server' = [server EXCEPT !.thread[t].pc =
                      IF server.game_orchestrator = None THEN "done" ELSE "checked"]
    /\ UNCHANGED games

\* run_game_loop line 228: game_running = True
ThreadSetRunning(t) ==
    /\ server.thread[t].pc = "checked"
    /\ server' = [server EXCEPT !.game_running = TRUE, !.thread[t].pc = "set"]
    /\ UNCHANGED games

\* run_game_loop line 234: game_orchestrator is read and its run_game entered
ThreadRunGame(t) ==
    /\ server.thread[t].pc = "set"
    /\ server' = [server EXCEPT !.thread[t] =
                      [pc |-> "running", runs |-> server.game_orchestrator]]
    /\ UNCHANGED games

\* run_game returns or raises; run_game_loop line 257: game_running = False
ThreadFinish(t) ==
    /\ server.thread[t].pc = "running"
    /\ server' = [server EXCEPT !.game_running = FALSE, !.thread[t].pc = "done"]
    /\ UNCHANGED games

NextStart ==
    \E r \in 1..MaxRequests :
       \/ StartGameEnter(r)
       \/ StartGameCreate(r)
       \/ StartGameThread(r)
       \/ ThreadCheck(r)
       \/ ThreadSetRunning(r)
       \/ ThreadRunGame(r)
       \/ ThreadFinish(r)

SpecStart == InitStart /\ [][NextStart]_vars

\* C21: every get_action call that run_game makes returns: a decision that
\* has been requested is resolved even when the agent never answers, because
\* the call is cancelled after a bounded wait and the forced outcome taken.
C21_RequestsResolve == (awaiting # None) ~> (awaiting = None)

\* C22: every response the web server sends while the game thread runs shows
\* a consistent game state: the cards of the hands and of the center pile in
\* it number 52.
C22_ReaderSeesConsistentState ==
    snapshot.part = "sent"
       => SumHands(snapshot.player_hands, game_state.player_order)
          + Len(snapshot.center_pile) = 52

\* C23: call_bs by the actor of the play on top of the center pile is
\* rejected and changes nothing, in every state with a non-empty pile, also
\* when the turn has moved past that actor.
C23_SelfChallengeRejected ==
    [][(/\ last_call'.op = "call_bs"
        /\ game_state.center_pile # <<>>
        /\ last_call'.player_id = TopPlay(game_state).player_id)
       => (~last_call'.ret /\ game_state' = game_state)]_vars

\* C24: call_bs on an empty center pile - at the start of the game and right
\* after a resolved challenge - is rejected whoever the caller is, and leaves
\* the game state and the game history as they were.
C24_EmptyPileRejected ==
    [][(last_call'.op = "call_bs" /\ game_state.center_pile = <<>>)
       => /\ ~last_call'.ret
          /\ last_call'.msg = "No cards have been played yet"
          /\ game_state' = game_state
          /\ global_game_history' = global_game_history]_vars

\* a call_bs rejected right after a challenge was resolved
C24_Witness ==
    /\ last_call.op = "call_bs"
    /\ ~last_call.ret
    /\ last_call.msg = "No cards have been played yet"
    /\ last_call.player_id \in Players
    /\ game_state.center_pile = <<>>
    /\ global_game_history # <<>>
    /\ global_game_history[Len(global_game_history)].action_type = "bs_result"
    /\ game_state.turn_number = 2

\* the rank expected on turn t: Ace on turn 1, one rank on with every turn
ExpectedOnTurn(t) == ((t - 1) % 13) + 1

\* C25: play_cards with a claimed rank other than the current expected rank
\* returns False and changes nothing; an accepted play is recorded with the
\* rank expected at that moment, so every play record in the center pile
\* carries the rank that was expected on the turn it was played.
C25_WrongRankRejected ==
    [][last_call'.op = "play_cards"
       => /\ play_args'.claimed_rank # game_state.current_expected_rank
             => /\ ~last_call'.ret
                /\ game_state' = game_state
                /\ global_game_history' = global_game_history
          /\ last_call'.ret
             => /\ play_args'.claimed_rank = game_state.current_expected_rank
                /\ TopPlay(game_state').claimed_rank = game_state.current_expected_rank
                /\ TopPlay(game_state').turn_number = game_state.turn_number
          /\ \A i \in 1..Len(game_state'.center_pile) :
                game_state'.center_pile[i].claimed_rank =
                   ExpectedOnTurn(game_state'.center_pile[i].turn_number)]_vars

\* on turn 2 the player on turn claimed a Three and was turned away, with
\* the play of turn 1 lying on the pile
C25_Witness ==
    /\ last_call.op = "play_cards"
    /\ ~last_call.ret
    /\ last_call.player_id = get_current_player(game_state)
    /\ game_state.turn_number = 2
    /\ game_state.current_expected_rank = 2
    /\ play_args.claimed_rank = 3
    /\ Len(game_state.center_pile) = 1
    /\ game_state.center_pile[1].claimed_rank = ACE
    /\ Len(game_state.player_hands[last_call.player_id]) = 4

\* C26: a play whose claimed count differs from the number of its cards, or
\* whose count is not between 1 and 4, is rejected, so every play record on
\* the center pile holds between one and four cards, as many as it claims.
C26_PlaysHoldOneToFourCards ==
    \A i \in 1..Len(game_state.center_pile) :
       /\ game_state.center_pile[i].claimed_count = Len(game_state.center_pile[i].cards)
       /\ Len(game_state.center_pile[i].cards) \in 1..4

\* a selection of indices with an index outside the hand or an index listed twice
InvalidSelection(card_indices, hand_size) ==
    \/ \E n \in 1..Len(card_indices) :
          card_indices[n] < 0 \/ card_indices[n] >= hand_size
    \/ \E m, n \in 1..Len(card_indices) : m # n /\ card_indices[m] = card_indices[n]

\* a list of cards with a card that is not in the hand or a card listed twice
InvalidCards(cards, hand) ==
    \/ \E n \in 1..Len(cards) : ~InList(hand, cards[n])
    \/ \E m, n \in 1..Len(cards) : m # n /\ cards[m] = cards[n]

\* lists of cards a caller of play_cards may pass that name a card the player
\* does not hold (a card of the next player) or name the first card twice
InvalidCardArgs(gs, player_id) ==
    LET hand  == gs.player_hands[player_id]
        other == gs.player_hands[get_next_player(gs)]
    IN  (IF other = <<>> \/ get_next_player(gs) = player_id THEN {}
         ELSE {<<other[1]>>, Append(hand, other[1])})
        \cup (IF hand = <<>> THEN {} ELSE {<<hand[1], hand[1]>>, Append(hand, hand[1])})

\* C27: a play is rejected when a selection does not refer to a card in the
\* actor's hand (an index below 0 or at least the hand size, or a card not
\* held) or when two selections refer to the same card: such a reply to the
\* play request leaves hands, pile and history as they were and no play is
\* recorded, and play_cards returns False for such a list of cards.
C27_InvalidSelectionRejected ==
    [][(/\ pc = "play"
        /\ requests' # requests
        /\ play_reply'.action = "play_cards"
        /\ InvalidSelection(play_reply'.card_indices,
                            Len(game_state.player_hands[current_player_id])))
          => /\ pc' # "challenge"
             /\ game_state'.player_hands = game_state.player_hands
             /\ game_state'.center_pile = game_state.center_pile
             /\ global_game_history' = global_game_history
             /\ last_call'.op # "play_cards" \/ last_call' = last_call
             /\ \A cards \in InvalidCardArgs(game_state, current_player_id) :
                   /\ InvalidCards(cards, game_state.player_hands[current_player_id])
                   /\ ~play_cards(game_state, current_player_id, cards,
                                  game_state.current_expected_rank, Len(cards)).ret]_vars

\* the player on turn answered the first request of turn 1 with the first
\* card of the hand selected twice and was asked again, the hand untouched
C27_Witness ==
    /\ pc = "play"
    /\ attempt = 1
    /\ game_state.turn_number = 1
    /\ play_reply = [action |-> "play_cards", card_indices |-> <<0, 0>>]
    /\ Len(game_state.player_hands[current_player_id]) = 4
    /\ game_state.center_pile = <<>>

\* the ace of spades is in the hand
HoldsAceOfSpades(hand) == \E a \in 1..Len(hand) : hand[a] = Card("spades", ACE)

\* C28: for every number of players n from 1 to 52, setup deals all 52
\* cards: every player has a hand, the hands are pairwise disjoint, their
\* sizes sum to 52 and differ by at most one, the first 52 mod n players
\* holding one card more, the deck is empty afterwards, the center pile is
\* empty and the phase is PLAYING.
C28_SetupDealsAllCards ==
    pc = "ready"
       => LET ids   == game_state.player_order
              n     == Len(ids)
              hands == game_state.player_hands
          IN  /\ n \in 1..52
              /\ DOMAIN hands = {ids[i] : i \in 1..n}
              /\ \A i \in 1..n :
                    Len(hands[ids[i]]) = (52 \div n) + (IF i - 1 < 52 % n THEN 1 ELSE 0)
              /\ \A i, j \in 1..n :
                    /\ Len(hands[ids[i]]) - Len(hands[ids[j]]) <= 1
                    /\ i # j => \A a \in 1..Len(hands[ids[i]]), b \in 1..Len(hands[ids[j]]) :
                                   hands[ids[i]][a] # hands[ids[j]][b]
              /\ SumHands(hands, ids) = 52
              /\ deck = <<>>
              /\ game_state.center_pile = <<>>
              /\ game_state.game_phase = PLAYING

\* five players were set up: the first two hold eleven cards, the others ten
C28_Witness ==
    /\ pc = "ready"
    /\ Len(game_state.player_order) = 5
    /\ Len(game_state.player_hands[101]) = 11
    /\ Len(game_state.player_hands[102]) = 11
    /\ Len(game_state.player_hands[103]) = 10
    /\ Len(game_state.player_hands[105]) = 10
    /\ deck = <<>>

\* C29: after setup the current player is the player whose hand contains
\* the ace of spades, whatever the deal; the current player is player 0
\* without holding it only when no hand contains it.
C29_AceOfSpadesStarts ==
    pc = "ready"
       => LET ids   == game_state.player_order
              hands == game_state.player_hands
              holds == {i \in 1..Len(ids) : HoldsAceOfSpades(hands[ids[i]])}
          IN  /\ holds # {} => game_state.current_player_index + 1 \in holds
              /\ holds = {} => game_state.current_player_index = 0
              /\ Cardinality(holds) <= 1

\* four players were set up, the third was dealt the ace of spades and starts
C29_Witness ==
    /\ pc = "ready"
    /\ Len(game_state.player_order) = 4
    /\ HoldsAceOfSpades(game_state.player_hands[103])
    /\ game_state.current_player_index = 2
    /\ get_current_player(game_state) = 103

\* deal_card returned a card, not None
IsCard(card) == card # NoCard

\* every suit/rank pair occurs exactly once among the 52 cards
AllCardsOnce(cards) ==
    /\ Len(cards) = 52
    /\ \A n \in 1..Len(Suit), rank \in Rank :
          Cardinality({i \in 1..Len(cards) : cards[i] = Card(Suit[n], rank)}) = 1

\* C30: a new Deck holds exactly 52 pairwise distinct cards, every
\* suit/rank pair once; shuffling keeps exactly that set; each deal_card on
\* a non-empty deck returns one card and lowers remaining_cards by exactly
\* one, and the card had not been dealt before: the cards left in the deck
\* and the cards dealt so far are always the 52 cards, each once.
C30_DeckDealsEachCardOnce ==
    [][/\ AllCardsOnce(deck \o SelectSeq(dealt, IsCard))
       /\ AllCardsOnce(deck' \o SelectSeq(dealt', IsCard))
       /\ (pc = "deck" /\ dealt = <<>>) => AllCardsOnce(deck)
       /\ pc' # pc
          => /\ Len(deck') = Len(deck)
             /\ {deck'[i] : i \in 1..Len(deck')} = {deck[i] : i \in 1..Len(deck)}
       /\ (dealt' # dealt /\ deck # <<>>)
          => /\ Len(dealt') = Len(dealt) + 1
             /\ IsCard(dealt'[Len(dealt')])
             /\ Len(deck') = Len(deck) - 1
             /\ \E i \in 1..Len(deck) : deck[i] = dealt'[Len(dealt')]
             /\ \A i \in 1..Len(dealt) : dealt[i] # dealt'[Len(dealt')]]_vars

\* the deck was shuffled and then dealt to the last card, 52 cards returned,
\* the first of them the ace of hearts
C30_Witness ==
    /\ pc = "shuffled"
    /\ deck = <<>>
    /\ Len(dealt) = 52
    /\ dealt[1] = Card("hearts", ACE)
    /\ \A i \in 1..52 : IsCard(dealt[i])

\* C31: dealing n cards from a deck removes and returns exactly n cards,
\* and fails when n exceeds the number of cards remaining in the deck: the
\* deck is then left as it was and no card is returned.
C31_DealCardsExactOrFails ==
    [][(dealt' # dealt \/ deck' # deck) /\ pc' = pc
          => IF deal_count' <= Len(deck)
             THEN /\ Len(deck') = Len(deck) - deal_count'
                  /\ dealt' = dealt \o [i \in 1..deal_count' |-> deck[Len(deck) - i + 1]]
             ELSE /\ deck' = deck
                  /\ SelectSeq(dealt', IsCard) = SelectSeq(dealt, IsCard)]_vars

\* C32: when a challenge is called, the bs_call event is delivered to the
\* observer callback before the resolution updates the game state: the
\* turn number the callback is handed, read from the game state at the
\* moment of delivery, is still the turn of the challenged play, and the
\* pile it describes is the pile as it lay before the transfer.
C32_BsCallNotifiedBeforeResolution ==
    [][(pc = "challenge" /\ notified'.type = "bs_call" /\ notified' # notified)
          => /\ notified'.turn_number = game_state.turn_number
             /\ notified'.data.center_pile_cards = AllCards(game_state.center_pile)]_vars

\* C33: through AIPlayer (get_action, then execute_action) a call_bs
\* reaches the game state only if the caller is not the current player, the
\* center pile is not empty and the caller is the next player in turn
\* order, and a play_cards reaches it only if the caller is the current
\* player and the selection is valid; an error action, an action that is
\* neither, an action of the wrong kind for the caller's turn status and
\* every action that returns failure leave the game state unchanged, no
\* call made.
C33_AgentActionsAreGated ==
    [][(requests' # <<>> /\ calls' # calls /\ last_call'.op # "advance_turn")
          => LET player_id  == requests'[1].player_id
                 action     == play_reply'.action
                 is_my_turn == player_id = get_current_player(game_state)
             IN  /\ last_call'.op = "call_bs"
                    => /\ action = "call_bs"
                       /\ last_call'.player_id = player_id
                       /\ ~is_my_turn
                       /\ game_state.center_pile # <<>>
                       /\ player_id = get_next_player(game_state)
                 /\ last_call'.op = "play_cards"
                    => /\ action = "play_cards"
                       /\ last_call'.player_id = player_id
                       /\ is_my_turn
                       /\ play_reply'.card_indices # <<>>
                       /\ ~InvalidSelection(play_reply'.card_indices,
                                            Len(game_state.player_hands[player_id]))
                 /\ (\/ action \notin {"play_cards", "call_bs"}
                     \/ action = "call_bs" /\ is_my_turn
                     \/ action = "play_cards" /\ ~is_my_turn
                     \/ ~(last_call'.op \in {"play_cards", "call_bs"} /\ last_call'.ret))
                    => /\ last_call' = NoCall
                       /\ game_state' = game_state
                       /\ global_game_history' = global_game_history]_vars

\* with a play on the pile, the player two seats after the player on turn
\* answered call_bs and was refused, no call made
C33_Witness ==
    /\ requests # <<>>
    /\ requests[1].kind = "act"
    /\ requests[1].player_id = Seat(game_state, 2)
    /\ play_reply.action = "call_bs"
    /\ game_state.center_pile # <<>>
    /\ Len(TopPlay(game_state).cards) = 1
    /\ TopPlay(game_state).player_id = get_current_player(game_state)
    /\ last_call = NoCall

\* C34: at most one game thread runs at any time: a /start_game request
\* that arrives while a game started by an earlier request has not
\* finished is answered with failure and neither creates a game thread nor
\* replaces the orchestrator, whatever the interleaving of the handlers and
\* the game threads.
C34_OneGameThread ==
    [][/\ Cardinality(LiveThreads(server')) <= 1
       /\ \A r \in 1..MaxRequests :
             (/\ server.handler[r] = "idle"
              /\ server'.handler[r] # "idle"
              /\ LiveThreads(server) # {})
                => /\ server'.handler[r] = "refused"
                   /\ server'.game_orchestrator = server.game_orchestrator
                   /\ server'.thread = server.thread]_vars

\* C35: in every reachable state the expected rank equals
\* ((turn_number - 1) mod 13) + 1; turn_number never decreases, and one
\* processed turn of the orchestrator raises it by at most one: the step
\* that raises it, a resolved challenge or an advance_turn, raises it by
\* one and ends the processing of the turn.
C35_RankFollowsTurnNumber ==
    [][/\ game_state.current_expected_rank = ((game_state.turn_number - 1) % 13) + 1
       /\ game_state'.current_expected_rank = ((game_state'.turn_number - 1) % 13) + 1
       /\ game_state'.turn_number \in {game_state.turn_number, game_state.turn_number + 1}
       /\ game_state'.turn_number # game_state.turn_number
          => /\ pc \in {"play", "challenge"}
             /\ pc' = "loop"
             /\ last_call'.op \in {"call_bs", "advance_turn"}
             /\ last_call'.ret
       /\ (pc = "challenge" /\ last_call'.op = "call_bs" /\ last_call'.ret)
          => game_state'.turn_number = game_state.turn_number + 1]_vars

\* the second turn processed ended with a resolved challenge and no
\* advance_turn: turn 3 expects a Three
C35_Witness ==
    /\ pc = "loop"
    /\ turn_count = 2
    /\ last_call.op = "call_bs"
    /\ last_call.ret
    /\ game_state.turn_number = 3
    /\ game_state.current_expected_rank = 3

\* the player seated after player_id in player_order, cyclically
Successor(gs, player_id) ==
    gs.player_order[((IndexOf(gs.player_order, player_id) + 1) % Len(gs.player_order)) + 1]

\* C36: under the orchestrator turn order is strictly cyclic: after every
\* turn in which a play was accepted the new current player is the
\* successor of the actor in player_order, whether the challenger declined,
\* challenged correctly or challenged incorrectly, and the challenger asked
\* is that successor.
C36_TurnOrderIsCyclic ==
    [][(pc = "challenge" /\ pc' = "loop")
          => LET actor == TopPlay(game_state).player_id
             IN  /\ game_state.center_pile # <<>>
                 /\ actor = current_player_id
                 /\ get_current_player(game_state') = Successor(game_state, actor)
                 /\ requests'[Len(requests')] =
                       Request(Successor(game_state, actor), "challenge")
                 /\ last_call'.op = "call_bs"
                    => last_call'.player_id = Successor(game_state, actor)]_vars

\* the first turn ended with a correct challenge: the challenger, seated
\* after the actor, is the current player and the actor took the pile
C36_Witness ==
    /\ pc = "loop"
    /\ turn_count = 1
    /\ last_call.op = "call_bs"
    /\ last_call.ret
    /\ last_call.msg = "correctly"
    /\ last_call.last_play.player_id = current_player_id
    /\ last_call.player_id = Successor(game_state, current_player_id)
    /\ get_current_player(game_state) = last_call.player_id
    /\ game_state.center_pile = <<>>

\* C37: whenever the orchestrator solicits or resolves a challenge, the
\* center pile is not empty, the actor of its most recent play is the
\* current player and that play was made in the current turn number.
C37_ChallengedPlayIsCurrent ==
    pc = "challenge"
       => /\ game_state.center_pile # <<>>
          /\ game_state.center_pile[Len(game_state.center_pile)].player_id
                = game_state.player_order[game_state.current_player_index + 1]
          /\ game_state.center_pile[Len(game_state.center_pile)].turn_number
                = game_state.turn_number

\* a challenge is due on turn 2 with the unchallenged play of turn 1 under
\* the play of turn 2
C37_Witness ==
    /\ pc = "challenge"
    /\ game_state.turn_number = 2
    /\ Len(game_state.center_pile) = 2
    /\ game_state.center_pile[1].turn_number = 1
    /\ game_state.center_pile[2].turn_number = 2
    /\ game_state.center_pile[2].player_id = current_player_id
    /\ game_state.center_pile[1].player_id # current_player_id

\* C38: in every state reachable through run_game in which a winner is
\* set, the final state it returns included, the winner's hand is empty.
C38_WinnerHandIsEmpty ==
    /\ game_state.winner # None => game_state.player_hands[game_state.winner] = <<>>
    /\ (pc = "done" /\ results.winner # None)
          => results.final_state.final_hand_counts[results.winner] = 0

\* number of get_action calls of one kind made in the turn being processed
RequestsOfKind(kind) ==
    Cardinality({i \in DOMAIN requests : requests[i].kind = kind})

\* C39: every agent request returning, run_game terminates: it processes at
\* most max_turns turns, each with at most 3 play requests and 1 challenge
\* request, and when it returns without a player having won, winner is None
\* and the phase is still PLAYING.
C39_RunGameTerminates ==
    /\ <>(pc = "done")
    /\ [](/\ turn_count <= max_turns
          /\ RequestsOfKind("play") <= max_attempts
          /\ RequestsOfKind("challenge") <= 1)
    /\ []((pc = "done" /\ ~is_game_over(game_state))
             => /\ results.turn_count = max_turns
                /\ results.winner = None
                /\ results.final_state.game_phase = PLAYING)

C39_Witness ==
    /\ pc = "done"
    /\ results.turn_count = max_turns
    /\ results.winner = None
    /\ results.final_state.game_phase = PLAYING
    /\ \A p \in Players : game_state.player_hands[p] # <<>>
    /\ game_state.center_pile # <<>>

====
